---- MODULE Spec2Model ----
(***************************************************************************)
(* Project synchronisation engine of CodeExpertDesktop.                    *)
(*                                                                         *)
(* The module models useProjectSync (one sync run of one project), the     *)
(* change detection of domain/FileState (getLocalChanges, getRemoteChanges,*)
(* getConflicts) and the upload-eligibility checks (getFilesToUpload).     *)
(*                                                                         *)
(* A path is a sequence of segments; the string '.' is the empty sequence, *)
(* 'd/f' is <<"d", "f">>.  An Option is a record [some, val]; a            *)
(* TaskEither result is a record [ok, val] or [ok, err].                   *)
(***************************************************************************)
EXTENDS Naturals, Sequences, FiniteSets, TLC

VARIABLES
    store,      \* project metadata store: ProjectId -> Project
    remote,     \* the server's project: sequence of entries with content
    localFiles, \* project directory: file path -> content, or Absent
    run,        \* the sync run in flight: program counter and bindings
    log,        \* effects of the run, in the order they were performed
    calc        \* inputs and results of the pure functions under check

vars == <<store, remote, localFiles, run, log, calc>>

(***************************************************************************)
(* Bounds                                                                  *)
(***************************************************************************)
MaxVersion == 2

(***************************************************************************)
(* Option and Either                                                       *)
(***************************************************************************)
None == [some |-> FALSE, val |-> <<>>]
Some(v) == [some |-> TRUE, val |-> v]

Right(v) == [ok |-> TRUE, val |-> v]
Left(e) == [ok |-> FALSE, err |-> e]

\* nonEmptyArray.fromArray
fromArray(xs) == IF xs = <<>> THEN None ELSE Some(xs)

\* option.filter
optionFilter(o, keep) == IF o.some /\ keep THEN o ELSE None

(***************************************************************************)
(* Sequences                                                               *)
(***************************************************************************)
Range(s) == {s[i] : i \in 1..Len(s)}

\* array.filter
FilterSeq(s, keep(_)) == SelectSeq(s, keep)

\* array.map
MapSeq(s, f(_)) == [i \in 1..Len(s) |-> f(s[i])]

\* array.findFirst
findFirst(s, p(_)) ==
    IF \E i \in 1..Len(s) : p(s[i])
    THEN Some(s[CHOOSE i \in 1..Len(s) : p(s[i]) /\ \A j \in 1..(i - 1) : ~p(s[j])])
    ELSE None

Paths(s) == {s[i].path : i \in 1..Len(s)}

\* all orderings of a finite set of records as sequences
Orderings(S) ==
    {s \in [1..Cardinality(S) -> S] : \A i, j \in 1..Cardinality(S) : s[i] = s[j] => i = j}

(***************************************************************************)
(* Paths (lib/tauri/path)                                                  *)
(***************************************************************************)
Root == <<>>

\* libPath.dirname: fails on '.'
dirname(p) == IF p = Root THEN Left("dirname") ELSE Right(SubSeq(p, 1, Len(p) - 1))

\* libPath.basename: none on '.'
basename(p) == IF p = Root THEN None ELSE Some(p[Len(p)])

\* dir.path.split('/').length
SplitLength(p) == IF p = Root THEN 1 ELSE Len(p)

\* names rejected by isValidFileName / isValidDirName
InvalidNames == {"x:"}
isValidFileName(name) == name \notin InvalidNames
isValidDirName(name) == name \notin InvalidNames

isFile(e) == e.type = "file"

(***************************************************************************)
(* Change detection (domain/FileState)                                     *)
(***************************************************************************)
eqPath(x, y) == x.path = y.path

\* array.difference(eqPath)(ys)(xs): the elements of xs with no match in ys
difference(xs, ys) ==
    LET keep(x) == \A j \in 1..Len(ys) : ~eqPath(x, ys[j]) IN FilterSeq(xs, keep)

\* array.intersection(eqPath)(ys)(xs): the elements of xs with a match in ys
intersection(xs, ys) ==
    LET keep(x) == \E j \in 1..Len(ys) : eqPath(x, ys[j]) IN FilterSeq(xs, keep)

\* tagged.build<LocalFileChange['change']>, tagged.build<RemoteFileChange['change']>
noChange == [tag |-> "noChange"]
removedChange == [tag |-> "removed"]
localAdded == [tag |-> "added"]
localUpdated == [tag |-> "updated"]
remoteAdded(version) == [tag |-> "added", version |-> version]
remoteUpdated(version) == [tag |-> "updated", version |-> version]

Change(p, c) == [path |-> p, change |-> c]

getRemoteChanges(previous, latest) ==
    LET previousFiles == FilterSeq(previous, isFile)
        latestFiles == FilterSeq(latest, isFile)
        mkRemoved(f) == Change(f.path, removedChange)
        mkAdded(f) == Change(f.path, remoteAdded(f.version))
        mkUpdated(f) == Change(f.path, remoteUpdated(f.version))
        changed(ls) ==
            LET cs == findFirst(latestFiles, LAMBDA c : c.path = ls.path)
            IN  cs.some /\ cs.val.version # ls.version
        removed == MapSeq(difference(previousFiles, latestFiles), mkRemoved)
        added == MapSeq(difference(latestFiles, previousFiles), mkAdded)
        updated == MapSeq(FilterSeq(previousFiles, changed), mkUpdated)
    IN  fromArray(removed \o added \o updated)

\* getLocalChanges without the comparison of hashes
getLocalChanges_pathsOnly(previous, latest) ==
    LET previousFiles == FilterSeq(previous, isFile)
        latestFiles == FilterSeq(latest, isFile)
        mkRemoved(f) == Change(f.path, removedChange)
        mkAdded(f) == Change(f.path, localAdded)
        removed == MapSeq(difference(previousFiles, latestFiles), mkRemoved)
        added == MapSeq(difference(latestFiles, previousFiles), mkAdded)
    IN  fromArray(removed \o added)

getLocalChanges(previous, latest) ==
    LET previousFiles == FilterSeq(previous, isFile)
        latestFiles == FilterSeq(latest, isFile)
        mkRemoved(f) == Change(f.path, removedChange)
        mkAdded(f) == Change(f.path, localAdded)
        mkUpdated(f) == Change(f.path, localUpdated)
        changed(prev) ==
            LET l == findFirst(latestFiles, LAMBDA c : eqPath(prev, c))
            IN  l.some /\ l.val.hash # prev.hash
        removed == MapSeq(difference(previousFiles, latestFiles), mkRemoved)
        added == MapSeq(difference(latestFiles, previousFiles), mkAdded)
        updated == MapSeq(FilterSeq(previousFiles, changed), mkUpdated)
    IN  fromArray(removed \o added \o updated)

\* getConflicts that takes two additions of the same path for no conflict
getConflicts_notAdded(local, rem) ==
    LET mk(changeLocal) ==
            LET r == findFirst(rem, LAMBDA c : eqPath(changeLocal, c))
            IN  [path |-> changeLocal.path,
                 changeLocal |-> changeLocal.change,
                 changeRemote |-> IF r.some THEN r.val.change ELSE noChange]
        both == FilterSeq(intersection(local, rem), LAMBDA c : c.change.tag # "added")
    IN  fromArray(MapSeq(both, mk))

getConflicts(local, rem) ==
    LET mk(changeLocal) ==
            LET r == findFirst(rem, LAMBDA c : eqPath(changeLocal, c))
            IN  [path |-> changeLocal.path,
                 changeLocal |-> changeLocal.change,
                 changeRemote |-> IF r.some THEN r.val.change ELSE noChange]
    IN  fromArray(MapSeq(intersection(local, rem), mk))

(***************************************************************************)
(* SyncException (domain/SyncException)                                    *)
(***************************************************************************)
\* the empty string used as a path
EmptyPath == <<"">>

conflictingChanges == [tag |-> "conflictingChanges", path |-> Root, reason |-> ""]
readOnlyFilesChanged(p, reason) == [tag |-> "readOnlyFilesChanged", path |-> p, reason |-> reason]
invalidFilename(name) == [tag |-> "invalidFilename", path |-> <<name>>, reason |-> ""]
fileSystemCorrupted(p, reason) == [tag |-> "fileSystemCorrupted", path |-> p, reason |-> reason]
projectDirMissing == [tag |-> "projectDirMissing", path |-> Root, reason |-> ""]
networkError(reason) == [tag |-> "networkError", path |-> Root, reason |-> reason]

(***************************************************************************)
(* Upload eligibility (useProjectSync.ts)                                  *)
(***************************************************************************)
\* the map passed to findClosest by checkClosestExistingAncestorIsWritable
closestMap(rem, closestPath) ==
    LET i == findFirst(rem, LAMBDA e : e.path = closestPath)
    IN  IF i.some THEN Some(i.val.permissions = "rw") ELSE None

\* findClosest that stays at the path when the map has no entry for it
findClosestStep_stays(rem, relPath) ==
    LET m == closestMap(rem, relPath)
    IN  IF m.some THEN [done |-> TRUE, result |-> Right(m.val), next |-> relPath]
        ELSE [done |-> FALSE, result |-> Right(FALSE), next |-> relPath]

\* one call of findClosest: the value of the map, a failure, or the path of the
\* recursive call
findClosestStep(rem, relPath) ==
    LET m == closestMap(rem, relPath)
    IN  IF m.some THEN [done |-> TRUE, result |-> Right(m.val), next |-> relPath]
        ELSE IF relPath = Root
             THEN [done |-> TRUE, next |-> relPath,
                   result |-> Left(fileSystemCorrupted(relPath, "Root directory must exist"))]
             ELSE LET d == dirname(relPath)
                  IN  IF d.ok THEN [done |-> FALSE, result |-> Right(FALSE), next |-> d.val]
                      ELSE [done |-> TRUE, next |-> relPath,
                            result |-> Left(fileSystemCorrupted(relPath, d.err))]

RECURSIVE findClosest(_, _)
findClosest(rem, relPath) ==
    LET step == findClosestStep(rem, relPath)
    IN  IF step.done THEN step.result ELSE findClosest(rem, step.next)

checkClosestExistingAncestorIsWritable(rem, c) ==
    LET r == findClosest(rem, c.path)
    IN  IF ~r.ok THEN r
        ELSE IF r.val THEN Right(c)
             ELSE Left(readOnlyFilesChanged(c.path, "Parent directory is read-only"))

checkValidFileName(c) ==
    LET b == basename(c.path)
    IN  IF ~b.some
        THEN Left(fileSystemCorrupted(c.path, "Could not determine basename of path"))
        ELSE IF isValidFileName(b.val) THEN Right(c) ELSE Left(invalidFilename(b.val))

\* the unfold of dirname: every ancestor of path up to and including '.'
RECURSIVE ancestors(_)
ancestors(path) ==
    IF path = Root THEN <<>>
    ELSE LET d == dirname(path)
         IN  IF d.ok THEN <<d>> \o ancestors(d.val)
             ELSE <<Left(fileSystemCorrupted(path, d.err))>>

\* either.sequenceArray
sequenceArray(es) ==
    IF \A i \in 1..Len(es) : es[i].ok
    THEN Right([i \in 1..Len(es) |-> es[i].val])
    ELSE es[CHOOSE i \in 1..Len(es) : ~es[i].ok /\ \A j \in 1..(i - 1) : es[j].ok]

\* paths.join('/')
RECURSIVE joinPaths(_)
joinPaths(ps) ==
    IF ps = <<>> THEN <<>>
    ELSE (IF Head(ps) = Root THEN <<".">> ELSE Head(ps)) \o joinPaths(Tail(ps))

checkEveryNewAncestorIsValidDirName(rem, change) ==
    LET isExisting(p) == \E i \in 1..Len(rem) : rem[i].path = p
        isNew(p) == ~isExisting(p)
        paths == sequenceArray(ancestors(change.path))
    IN  IF ~paths.ok THEN paths
        ELSE LET new == FilterSeq(paths.val, isNew)
                 names == MapSeq(new, basename)
             IN  IF /\ \A i \in 1..Len(names) : names[i].some
                    /\ \A i \in 1..Len(names) : isValidDirName(names[i].val)
                 THEN Right(change)
                 ELSE Left(fileSystemCorrupted(joinPaths(paths.val),
                                               "Parent directory has invalid name"))

\* isFileWritable that takes every file for writable
isFileWritable_always(rem, c) == TRUE

isFileWritable(rem, c) ==
    LET i == findFirst(rem, LAMBDA e : e.path = c.path)
    IN  IF i.some THEN i.val.permissions = "rw" ELSE FALSE

\* the check getFilesToUpload applies to one change, by kind of change
checkChange(rem, x) ==
    CASE x.change.tag = "added" ->
            LET a == checkClosestExistingAncestorIsWritable(rem, x)
            IN  IF ~a.ok THEN a
                ELSE LET b == checkEveryNewAncestorIsValidDirName(rem, a.val)
                     IN  IF ~b.ok THEN b
                         ELSE LET n == checkValidFileName(b.val)
                              IN  IF n.ok THEN b ELSE n
      [] x.change.tag = "removed" ->
            IF isFileWritable(rem, x)
            THEN checkClosestExistingAncestorIsWritable(rem, x)
            ELSE Left(readOnlyFilesChanged(EmptyPath, "File is read-only"))
      [] x.change.tag = "updated" ->
            IF isFileWritable(rem, x) THEN Right(x)
            ELSE Left(readOnlyFilesChanged(EmptyPath, "File is read-only"))

getFilesToUpload(local, rem) ==
    LET changes == FilterSeq(local, LAMBDA c : c.change.tag \in {"added", "removed", "updated"})
        checked == MapSeq(changes, LAMBDA x : checkChange(rem, x))
    IN  sequenceArray(checked)

\* getFilesToDownload that keeps the entries of the added paths only
getFilesToDownload_addedOnly(projectInfoRemote, remoteChanges) ==
    LET wanted == FilterSeq(remoteChanges, LAMBDA c : c.change.tag = "added")
    IN  FilterSeq(projectInfoRemote, LAMBDA e : \E i \in 1..Len(wanted) : wanted[i].path = e.path)

getFilesToDownload(projectInfoRemote, remoteChanges) ==
    LET wanted == FilterSeq(remoteChanges, LAMBDA c : c.change.tag \in {"added", "updated"})
    IN  FilterSeq(projectInfoRemote, LAMBDA e : \E i \in 1..Len(wanted) : wanted[i].path = e.path)

getFilesToDelete(remoteChanges) ==
    FilterSeq(remoteChanges, LAMBDA c : c.change.tag = "removed")

getDirToUpdate(projectInfoRemote) == FilterSeq(projectInfoRemote, LAMBDA e : ~isFile(e))

\* checkConflicts that logs the conflicts and lets the run go on
checkConflicts_logsOnly(localChanges, remoteChanges) == Right(TRUE)

checkConflicts(localChanges, remoteChanges) ==
    LET conflicts == IF localChanges.some /\ remoteChanges.some
                     THEN getConflicts(localChanges.val, remoteChanges.val)
                     ELSE None
    IN  IF conflicts.some THEN Left(conflictingChanges) ELSE Right(TRUE)

(***************************************************************************)
(* The world of a run                                                      *)
(***************************************************************************)
ProjectIds == {"p1", "p2"}
Absent == "absent"
FilePaths == {<<"a">>, <<"d", "f">>}
Hashes == {"h1", "h2"}

FilePathSeq == <<<<"a">>, <<"d", "f">>>>
Forces == {"none", "push", "pull"}

\* api.getFileHash: the digest of a file's content
Hash(content) == "#" \o content
\* the content the server holds for a version nobody uploaded from here
ContentOf(version) == "c" \o ToString(version)
\* the content of a file edited locally
Edited == "e"

NoProject == [tag |-> "none"]
NoCalc == [fn |-> "none"]

\* libPath.escape
escape(segment) == IF segment = "C/1" THEN "C_1" ELSE segment

Metadata(id) ==
    [projectId |-> id, semester |-> "HS23", courseName |-> "C/1",
     exerciseName |-> "E1", taskName |-> "T1", permissions |-> "rw",
     taskOrder |-> 1, exerciseOrder |-> 1]

\* projectADT.remote / projectADT.local
remoteProject(meta) == [tag |-> "remote", value |-> meta]
\* projectADT.local({...value, files, basePath, syncedAt, syncState})
localProject(value, basePath, files, syncedAt, syncState) ==
    [tag |-> "local",
     value |-> [k \in DOMAIN value \cup {"basePath", "files", "syncedAt", "syncState"} |->
                  CASE k = "basePath" -> basePath
                    [] k = "files" -> files
                    [] k = "syncedAt" -> syncedAt
                    [] k = "syncState" -> syncState
                    [] OTHER -> value[k]]]

getProjectDirRelative(meta) ==
    <<escape(meta.semester), escape(meta.courseName),
      escape(meta.exerciseName), escape(meta.taskName)>>

NoResult == [state |-> "pending", err |-> [tag |-> "none", path |-> Root, reason |-> ""]]
Succeeded == [state |-> "right", err |-> [tag |-> "none", path |-> Root, reason |-> ""]]
Failed(e) == [state |-> "left", err |-> e]
Thrown(reason) == [state |-> "thrown", err |-> [tag |-> "thrown", path |-> Root, reason |-> reason]]

IdleRun ==
    [pc |-> "idle", attempt |-> 1, force |-> "none", project |-> NoProject, before |-> NoProject,
     projectDirRelative |-> <<>>, projectInfoPrevious |-> None,
     projectInfoRemote |-> <<>>, projectInfoLocal |-> None,
     remoteChanges |-> None, localChanges |-> None,
     filesToUpload |-> None, filesToDownload |-> None, filesToDelete |-> None,
     dirs |-> <<>>, i |-> 1, updatedProjectInfo |-> <<>>, result |-> NoResult]

Quiescent ==
    /\ store = [id \in ProjectIds |-> NoProject]
    /\ remote = <<>>
    /\ localFiles = [p \in FilePaths |-> Absent]
    /\ run = IdleRun
    /\ log = <<>>

(***************************************************************************)
(* SpecDiff: getLocalChanges, getRemoteChanges and getConflicts applied to *)
(* every baseline, local scan and remote inventory within the bounds.      *)
(***************************************************************************)
BaselineEntries ==
    {[path |-> p, type |-> "file", version |-> v, hash |-> h, permissions |-> "rw"] :
        p \in FilePaths, v \in 1..MaxVersion, h \in Hashes}

LocalEntries == {[path |-> p, type |-> "file", hash |-> h] : p \in FilePaths, h \in Hashes}

RemoteEntries ==
    {[path |-> p, type |-> "file", version |-> v] : p \in FilePaths, v \in 1..MaxVersion}
    \cup {[path |-> <<"d">>, type |-> "dir", version |-> 1]}

\* every list of entries of E with pairwise distinct paths
Lists(E) ==
    UNION {Orderings(S) : S \in {T \in SUBSET E : \A x, y \in T : x.path = y.path => x = y}}

DiffInit ==
    /\ Quiescent
    /\ \E B \in Lists(BaselineEntries), L \in Lists(LocalEntries), R \in Lists(RemoteEntries) :
          calc = [fn |-> "diff", stage |-> "input", previous |-> B, local |-> L, latest |-> R,
                  localChanges |-> None, remoteChanges |-> None,
                  selfLocal |-> None, selfRemote |-> None,
                  conflicts |-> None, swapped |-> None]

CalcDiff ==
    /\ calc.fn = "diff" /\ calc.stage = "input"
    /\ calc' = [calc EXCEPT !.stage = "diffed",
                            !.localChanges = getLocalChanges(calc.previous, calc.local),
                            !.remoteChanges = getRemoteChanges(calc.previous, calc.latest),
                            !.selfLocal = getLocalChanges(calc.previous, calc.previous),
                            !.selfRemote = getRemoteChanges(calc.latest, calc.latest)]
    /\ UNCHANGED <<store, remote, localFiles, run, log>>

CalcConflicts ==
    /\ calc.fn = "diff" /\ calc.stage = "diffed"
    /\ calc.localChanges.some /\ calc.remoteChanges.some
    /\ calc' = [calc EXCEPT !.stage = "conflicts",
                            !.conflicts = getConflicts(calc.localChanges.val,
                                                       calc.remoteChanges.val),
                            !.swapped = getConflicts(calc.remoteChanges.val,
                                                     calc.localChanges.val)]
    /\ UNCHANGED <<store, remote, localFiles, run, log>>

DiffNext == CalcDiff \/ CalcConflicts

SpecDiff == DiffInit /\ [][DiffNext]_vars

(***************************************************************************)
(* SpecUpload: the upload-eligibility checks applied to every remote       *)
(* inventory and list of local changes within the bounds.                  *)
(***************************************************************************)
\* inventory paths, in the order of the inventory
InventoryPaths == <<Root, <<"a">>, <<"d">>, <<"d", "f">>>>
InventoryType(p) == IF p \in FilePaths THEN "file" ELSE "dir"

\* the inventories: each path absent, read-only or writable
Inventories ==
    {LET present == SelectSeq(InventoryPaths, LAMBDA p : perm[p] # Absent)
     IN  [i \in 1..Len(present) |->
            [path |-> present[i], type |-> InventoryType(present[i]),
             version |-> 1, permissions |-> perm[present[i]]]] :
     perm \in [Range(InventoryPaths) -> {Absent, "r", "rw"}]}

ChangePaths == {<<"a">>, <<"d", "f">>, <<"d", "x:">>, <<"x:", "g">>, <<"e", "g">>}
ChangeKinds == {"added", "removed", "updated"}
LocalChanges == {Change(p, [tag |-> k]) : p \in ChangePaths, k \in ChangeKinds}

ChangeLists ==
    {<<c>> : c \in LocalChanges}
    \cup {<<pr[1], pr[2]>> : pr \in {q \in LocalChanges \X LocalChanges : q[1].path # q[2].path}}

UploadInit ==
    /\ Quiescent
    /\ \E rem \in Inventories, cs \in ChangeLists :
          calc = [fn |-> "upload", stage |-> "input", remote |-> rem, changes |-> cs,
                  closest |-> <<>>, filesToUpload |-> Right(<<>>)]

CalcClosest ==
    /\ calc.fn = "upload" /\ calc.stage = "input"
    /\ calc' = [calc EXCEPT
                  !.stage = "closest",
                  !.closest = MapSeq(calc.changes,
                      LAMBDA c : checkClosestExistingAncestorIsWritable(calc.remote, c))]
    /\ UNCHANGED <<store, remote, localFiles, run, log>>

CalcFilesToUpload ==
    /\ calc.fn = "upload" /\ calc.stage = "closest"
    /\ calc' = [calc EXCEPT !.stage = "upload",
                            !.filesToUpload = getFilesToUpload(calc.changes, calc.remote)]
    /\ UNCHANGED <<store, remote, localFiles, run, log>>

UploadNext == CalcClosest \/ CalcFilesToUpload

SpecUpload == UploadInit /\ [][UploadNext]_vars

(***************************************************************************)
(* Properties of change detection, checked under SpecDiff                  *)
(***************************************************************************)
Files(s) == FilterSeq(s, isFile)
Lookup(s, p) == findFirst(s, LAMBDA e : e.path = p)
PathsWith(changes, tags) ==
    {changes.val[i].path : i \in {j \in 1..Len(changes.val) : changes.val[j].change.tag \in tags}}
Diffed == calc.fn = "diff" /\ calc.stage # "input"

\* the baseline after the local change records are applied to it, as (path, hash)
ApplyLocal(B, changes, L) ==
    LET kept == (Paths(Files(B)) \ PathsWith(changes, {"removed"}))
                    \cup PathsWith(changes, {"added"})
        fresh == PathsWith(changes, {"added", "updated"})
        hashOf(p) == IF p \in fresh
                     THEN (IF Lookup(L, p).some THEN Lookup(L, p).val.hash ELSE "missing")
                     ELSE Lookup(Files(B), p).val.hash
    IN  {<<p, hashOf(p)>> : p \in kept}

\* the baseline after the remote change records are applied to it, as (path, version)
ApplyRemote(B, changes) ==
    LET kept == (Paths(Files(B)) \ PathsWith(changes, {"removed"}))
                    \cup PathsWith(changes, {"added"})
        fresh == PathsWith(changes, {"added", "updated"})
        versionOf(p) == IF p \in fresh
                        THEN Lookup(changes.val, p).val.change.version
                        ELSE Lookup(Files(B), p).val.version
    IN  {<<p, versionOf(p)>> : p \in kept}

DiffSoundLocal ==
    Diffed => ApplyLocal(calc.previous, calc.localChanges, calc.local)
                = {<<e.path, e.hash>> : e \in Range(Files(calc.local))}

DiffSoundRemote ==
    Diffed => ApplyRemote(calc.previous, calc.remoteChanges)
                = {<<e.path, e.version>> : e \in Range(Files(calc.latest))}

\* C6: applying getLocalChanges(B, L) to B yields L on (path, hash), and applying
\* getRemoteChanges(B, L) to B with the versions carried by the records yields L
\* on (path, version).
DiffSoundness == DiffSoundLocal /\ DiffSoundRemote

SameFiles(B, L, d(_)) ==
    /\ Paths(Files(B)) = Paths(Files(L))
    /\ \A i \in 1..Len(B), j \in 1..Len(L) :
          (isFile(B[i]) /\ isFile(L[j]) /\ B[i].path = L[j].path) => d(B[i]) = d(L[j])

\* C7: a diff is none exactly when both lists have the same file paths with equal
\* discriminators; a list diffed against itself gives none; the result is never
\* an empty list.
DiffCompleteness ==
    Diffed =>
        /\ ~calc.localChanges.some <=> SameFiles(calc.previous, calc.local, LAMBDA e : e.hash)
        /\ ~calc.remoteChanges.some <=> SameFiles(calc.previous, calc.latest, LAMBDA e : e.version)
        /\ ~calc.selfLocal.some /\ ~calc.selfRemote.some
        /\ calc.localChanges.some => calc.localChanges.val # <<>>
        /\ calc.remoteChanges.some => calc.remoteChanges.val # <<>>

DiffCompletenessWitness ==
    /\ Diffed
    /\ calc.previous # <<>>
    /\ ~calc.localChanges.some
    /\ calc.remoteChanges.some
    /\ \E i \in 1..Len(calc.remoteChanges.val) : calc.remoteChanges.val[i].change.tag = "updated"

\* C8: the conflicts are exactly the paths changed on both sides, each pairing the
\* local and the remote change of its path, and swapping the sides gives the same
\* paths.
ConflictExactness ==
    (calc.fn = "diff" /\ calc.stage = "conflicts") =>
        LET l == calc.localChanges.val
            r == calc.remoteChanges.val
            c == calc.conflicts
        IN  /\ Paths(c.val) = Paths(l) \cap Paths(r)
            /\ c.some <=> Paths(l) \cap Paths(r) # {}
            /\ \A k \in 1..Len(c.val) :
                  /\ \E i \in 1..Len(l) :
                        l[i].path = c.val[k].path /\ l[i].change = c.val[k].changeLocal
                  /\ \E j \in 1..Len(r) :
                        r[j].path = c.val[k].path /\ r[j].change = c.val[k].changeRemote
            /\ Paths(calc.swapped.val) = Paths(c.val)
            /\ calc.swapped.some <=> c.some

ConflictExactnessWitness ==
    /\ calc.fn = "diff" /\ calc.stage = "conflicts"
    /\ calc.conflicts.some
    /\ \E k \in 1..Len(calc.conflicts.val) :
          /\ calc.conflicts.val[k].changeLocal.tag = "added"
          /\ calc.conflicts.val[k].changeRemote.tag = "added"
    /\ \E k \in 1..Len(calc.conflicts.val) :
          /\ calc.conflicts.val[k].changeLocal.tag = "updated"
          /\ calc.conflicts.val[k].changeRemote.tag = "updated"

(***************************************************************************)
(* Properties of the upload-eligibility checks, checked under SpecUpload   *)
(***************************************************************************)
ProperAncestors(p) == {SubSeq(p, 1, k) : k \in 0..(Len(p) - 1)}
PresentAncestors(rem, p) == ProperAncestors(p) \cap Paths(rem)
NearestAncestor(rem, p) ==
    CHOOSE a \in PresentAncestors(rem, p) : \A b \in PresentAncestors(rem, p) : Len(b) <= Len(a)
NearestAncestorWritable(rem, p) ==
    PresentAncestors(rem, p) # {} => Lookup(rem, NearestAncestor(rem, p)).val.permissions = "rw"

\* C9: when checkClosestExistingAncestorIsWritable accepts a change for p, the
\* nearest proper ancestor of p present in the remote inventory is 'rw'.
AncestorWritability ==
    (calc.fn = "upload" /\ calc.stage # "input") =>
        \A i \in 1..Len(calc.changes) :
            calc.closest[i].ok => NearestAncestorWritable(calc.remote, calc.changes[i].path)

\* C10: getFilesToUpload accepts a 'removed' change for p only if p is 'rw' in
\* the remote inventory and the closest existing ancestor of p is 'rw'.
RemovalEligibility ==
    (calc.fn = "upload" /\ calc.stage = "upload" /\ calc.filesToUpload.ok) =>
        \A i \in 1..Len(calc.changes) :
            calc.changes[i].change.tag = "removed" =>
                /\ Lookup(calc.remote, calc.changes[i].path).some
                /\ Lookup(calc.remote, calc.changes[i].path).val.permissions = "rw"
                /\ NearestAncestorWritable(calc.remote, calc.changes[i].path)

Uploaded == calc.fn = "upload" /\ calc.stage = "upload"

\* the changes whose outcome is the outcome of getFilesToUpload: every change
\* when the list is accepted, the first rejected change when it is not
Decisive(rem, changes) ==
    {i \in 1..Len(changes) :
        /\ \A j \in 1..(i - 1) : checkChange(rem, changes[j]).ok
        /\ getFilesToUpload(changes, rem).ok \/ ~checkChange(rem, changes[i]).ok}

ReadOnlyInRemote(rem, p) == Lookup(rem, p).some /\ Lookup(rem, p).val.permissions = "r"

\* C12: the readOnlyFilesChanged raised for a locally updated or removed file
\* that is read-only in the remote inventory carries the path of that file.
ReadOnlyPathReported ==
    Uploaded =>
        \A i \in Decisive(calc.remote, calc.changes) :
            (/\ calc.changes[i].change.tag \in {"updated", "removed"}
             /\ ReadOnlyInRemote(calc.remote, calc.changes[i].path)) =>
                /\ ~calc.filesToUpload.ok
                /\ calc.filesToUpload.err.tag = "readOnlyFilesChanged"
                /\ calc.filesToUpload.err.path = calc.changes[i].path

\* the three conditions of an addition, in the order they are tested
ValidNewAncestors(rem, p) ==
    \A a \in ProperAncestors(p) \ Paths(rem) : a # Root /\ isValidDirName(a[Len(a)])
ExpectedAdded(rem, p) ==
    IF ~(PresentAncestors(rem, p) # {} /\ NearestAncestorWritable(rem, p))
    THEN "readOnlyFilesChanged"
    ELSE IF ~ValidNewAncestors(rem, p) THEN "fileSystemCorrupted"
    ELSE IF ~isValidFileName(p[Len(p)]) THEN "invalidFilename"
    ELSE "accepted"
OutcomeTag(e) == IF e.ok THEN "accepted" ELSE e.err.tag

AddedEligibilityOver(paths) ==
    Uploaded =>
        \A i \in Decisive(calc.remote, calc.changes) :
            (/\ calc.changes[i].change.tag = "added"
             /\ calc.changes[i].path \in paths
             /\ PresentAncestors(calc.remote, calc.changes[i].path) # {}) =>
                OutcomeTag(calc.filesToUpload)
                    = ExpectedAdded(calc.remote, calc.changes[i].path)

\* C13: getFilesToUpload accepts an 'added' change for p only if the closest
\* existing ancestor of p is 'rw', every ancestor of p missing from the inventory
\* has a valid directory name and the basename of p is a valid file name; the
\* first condition that fails, in this order, gives readOnlyFilesChanged,
\* fileSystemCorrupted or invalidFilename.
AddedEligibility == AddedEligibilityOver(ChangePaths)

\* the same for the additions of a path the remote inventory does not hold
AddedEligibilityOfNewPath == AddedEligibilityOver(ChangePaths \ Paths(calc.remote))

(***************************************************************************)
(* Spec: one sync run (useProjectSync) of project p1, with every I/O step  *)
(* free to fail.                                                           *)
(***************************************************************************)
syncedUnknown == [tag |-> "synced", changes |-> "unknown"]
\* the sync states a stored Local project may carry
SyncStates == {syncedUnknown, [tag |-> "syncing", changes |-> "none"]}
\* the directory of a project synced before its task was renamed
MovedDir == <<"HS23", "C_1", "E1", "T0">>

\* the inventory entry the server holds for a path
ServerEntry(p, version, permissions) ==
    [path |-> p, type |-> InventoryType(p), version |-> version, permissions |-> permissions,
     content |-> IF InventoryType(p) = "file" THEN ContentOf(version) ELSE ""]

\* what the server may hold for a path: nothing, or a version and permissions
ServerStates == {<<0, Absent>>} \cup ((1..MaxVersion) \X {"r", "rw"})

ServerInit(st) ==
    LET present == SelectSeq(InventoryPaths, LAMBDA p : st[p][2] # Absent)
    IN  [i \in 1..Len(present) |-> ServerEntry(present[i], st[present[i]][1], st[present[i]][2])]

\* a baseline committed when every file of it was at version 1
BaselineInit(inBase, st) ==
    LET present == SelectSeq(FilePathSeq, LAMBDA p : inBase[p])
    IN  [i \in 1..Len(present) |->
            [path |-> present[i], type |-> "file", version |-> 1,
             hash |-> Hash(ContentOf(1)),
             permissions |-> IF st[present[i]][2] = Absent THEN "rw" ELSE st[present[i]][2]]]

Init ==
    /\ calc = NoCalc
    /\ run = IdleRun
    /\ log = <<>>
    /\ \E st \in [Range(InventoryPaths) -> ServerStates] :
          /\ st[Root] \in {<<0, Absent>>, <<1, "rw">>}
          /\ st[<<"d">>][1] <= 1
          /\ st[<<"d", "f">>][2] # Absent => st[<<"d">>][2] # Absent
          /\ remote = ServerInit(st)
          /\ \/ /\ localFiles \in [FilePaths -> {Absent, Edited}]
                /\ store = [id \in ProjectIds |-> remoteProject(Metadata(id))]
             \/ /\ localFiles \in [FilePaths -> {Absent, ContentOf(1), Edited}]
                /\ \E inBase \in [FilePaths -> BOOLEAN], syncState \in SyncStates,
                      basePath \in {getProjectDirRelative(Metadata("p1")), MovedDir} :
                      store = [id \in ProjectIds |->
                                 IF id = "p1"
                                 THEN localProject(Metadata(id), basePath,
                                                   BaselineInit(inBase, st), 0, syncState)
                                 ELSE remoteProject(Metadata(id))]

Logged(op, p, info) == [op |-> op, path |-> p, info |-> info]
Fail(e) == [run EXCEPT !.pc = "failed", !.result = Failed(e)]
Throw(reason) == [run EXCEPT !.pc = "failed", !.result = Thrown(reason)]

\* the first run of a behaviour meets faults, the run that retries it meets none
Faults == run.attempt = 1
\* the upload of the run returned
UploadSucceeded == \E i \in 1..(Len(log) - 1) : log[i].op = "POST files"

\* the files of the inventory as the codec RemoteFileInfoC decodes them
Inventory(server) ==
    [i \in 1..Len(server) |->
        [path |-> server[i].path, type |-> server[i].type,
         version |-> server[i].version, permissions |-> server[i].permissions]]

\* array.sort(ord.contramap(dir => dir.path.split('/').length)): stable, by depth
RECURSIVE sortByDepth(_, _)
sortByDepth(dirs, depth) ==
    IF \A i \in 1..Len(dirs) : SplitLength(dirs[i].path) < depth THEN <<>>
    ELSE FilterSeq(dirs, LAMBDA e : SplitLength(e.path) = depth) \o sortByDepth(dirs, depth + 1)

\* the run is started with the project the repository holds
Start ==
    /\ run.pc = "idle"
    /\ store["p1"] # NoProject
    /\ \E force \in Forces :
          run' = [IdleRun EXCEPT !.pc = "setup", !.force = force,
                                 !.project = store["p1"], !.before = store["p1"]]
    /\ UNCHANGED <<store, remote, localFiles, log, calc>>

\* the user starts the sync again after a run without force that failed after
\* its upload: the project is read from the repository again
Retry ==
    /\ run.pc = "failed" /\ run.attempt = 1 /\ run.force = "none"
    /\ store["p1"] # NoProject
    /\ UploadSucceeded
    /\ run' = [IdleRun EXCEPT !.pc = "setup", !.attempt = 2,
                              !.project = store["p1"], !.before = store["p1"]]
    /\ log' = <<>>
    /\ UNCHANGED <<store, remote, localFiles, calc>>

\* what the settings store may hold under the key 'projectDir'
Settings == {"absent", "notString", "string"}

\* api.settingRead(key, iots.string): the stored value when it decodes
settingRead(setting) == IF setting = "string" THEN Some(setting) ELSE None

\* Setup that always derives the project directory from the metadata
Setup_derivesDir ==
    /\ run.pc = "setup"
    /\ \E setting \in Settings :
          /\ Faults \/ setting = "string"
          /\ log' = Append(log, Logged("settingRead", Root, setting))
          /\ run' = IF settingRead(setting).some
                    THEN [run EXCEPT
                            !.pc = "fetchRemote",
                            !.projectDirRelative = getProjectDirRelative(run.project.value),
                            !.projectInfoPrevious =
                                IF run.project.tag = "local"
                                THEN Some(run.project.value.files) ELSE None]
                    ELSE Fail(projectDirMissing)
    /\ UNCHANGED <<store, remote, localFiles, calc>>

\* Setup that goes on without a root directory
Setup_withoutRootDir ==
    /\ run.pc = "setup"
    /\ \E setting \in Settings :
          /\ Faults \/ setting = "string"
          /\ log' = Append(log, Logged("settingRead", Root, setting))
          /\ run' = [run EXCEPT
                       !.pc = "fetchRemote",
                       !.projectDirRelative =
                           IF run.project.tag = "remote"
                           THEN getProjectDirRelative(run.project.value)
                           ELSE run.project.value.basePath,
                       !.projectInfoPrevious =
                           IF run.project.tag = "local"
                           THEN Some(run.project.value.files) ELSE None]
    /\ UNCHANGED <<store, remote, localFiles, calc>>

\* setup: rootDir, projectDirRelative, projectDir, projectInfoPrevious
Setup ==
    /\ run.pc = "setup"
    /\ \E setting \in Settings :
          /\ Faults \/ setting = "string"
          /\ log' = Append(log, Logged("settingRead", Root, setting))
          /\ run' = IF settingRead(setting).some
                    THEN [run EXCEPT
                            !.pc = "fetchRemote",
                            !.projectDirRelative =
                                IF run.project.tag = "remote"
                                THEN getProjectDirRelative(run.project.value)
                                ELSE run.project.value.basePath,
                            !.projectInfoPrevious =
                                IF run.project.tag = "local"
                                THEN Some(run.project.value.files) ELSE None]
                    ELSE Fail(projectDirMissing)
    /\ UNCHANGED <<store, remote, localFiles, calc>>

\* projectInfoRemote: getProjectInfoRemote
FetchRemote ==
    /\ run.pc = "fetchRemote"
    /\ log' = Append(log, Logged("GET info", Root, ""))
    /\ \/ Faults /\ run' = Fail(networkError("Could not connect to server"))
       \/ run' = [run EXCEPT !.pc = "scanLocal", !.projectInfoRemote = Inventory(remote)]
    /\ UNCHANGED <<store, remote, localFiles, calc>>

\* getProjectFilesLocal and addHash: the visible files of the project directory
scanLocal(files) ==
    LET present == SelectSeq(FilePathSeq, LAMBDA p : files[p] # Absent)
    IN  [i \in 1..Len(present) |->
            [path |-> present[i], type |-> "file", hash |-> Hash(files[present[i]])]]

\* projectInfoLocal: getProjectInfoLocal, for a Local project only
ScanLocal ==
    /\ run.pc = "scanLocal"
    /\ IF run.project.tag = "local"
       THEN /\ log' = Append(log, Logged("readDirTree", Root, ""))
            /\ \/ Faults /\ run' = Fail(fileSystemCorrupted(run.projectDirRelative, "readDirTree"))
               \/ Faults /\ run' = Throw("getFileHash")
               \/ run' = [run EXCEPT !.pc = "diff",
                                     !.projectInfoLocal = Some(scanLocal(localFiles))]
       ELSE /\ log' = log
            /\ run' = [run EXCEPT !.pc = "diff", !.projectInfoLocal = None]
    /\ UNCHANGED <<store, remote, localFiles, calc>>

\* the filter of remoteChanges without the test of force
keepRemoteChanges_always(force) == TRUE

\* the filter of remoteChanges with the filter of localChanges in its place
keepRemoteChanges_swapped(force) == force \in {"none", "push"}

\* option.filter(() => force == null || force === 'pull')
keepRemoteChanges(force) == force \in {"none", "pull"}

\* the filter of localChanges without the test of force
keepLocalChanges_always(force) == TRUE

\* option.filter(() => force == null || force === 'push')
keepLocalChanges(force) == force \in {"none", "push"}

\* remoteChanges, localChanges and checkConflicts
Diff ==
    /\ run.pc = "diff"
    /\ LET previous == run.projectInfoPrevious
           remoteChanges ==
               optionFilter(IF previous.some
                            THEN getRemoteChanges(previous.val, run.projectInfoRemote)
                            ELSE getRemoteChanges(<<>>, run.projectInfoRemote),
                            keepRemoteChanges(run.force))
           localChanges ==
               optionFilter(IF run.projectInfoLocal.some /\ previous.some
                            THEN getLocalChanges(previous.val, run.projectInfoLocal.val)
                            ELSE None,
                            keepLocalChanges(run.force))
           checked == checkConflicts(localChanges, remoteChanges)
           bound == [run EXCEPT !.remoteChanges = remoteChanges, !.localChanges = localChanges]
       IN  run' = IF checked.ok
                  THEN [bound EXCEPT !.pc = "plan"]
                  ELSE [bound EXCEPT !.pc = "failed", !.result = Failed(checked.err)]
    /\ UNCHANGED <<store, remote, localFiles, log, calc>>

\* the next step when the directories are ensured after the downloads
AfterDownload_thenDirs(r) ==
    IF r.pc = "download" /\ r.dirs # <<>>
    THEN [r EXCEPT !.pc = "mkdir", !.i = 1, !.filesToDownload = None]
    ELSE IF r.filesToDelete.some /\ r.filesToDelete.val # <<>>
         THEN [r EXCEPT !.pc = "delete", !.i = 1]
         ELSE [r EXCEPT !.pc = "refetch"]

\* the next step of the run that has something to do
AfterDownload(r) ==
    IF r.filesToDelete.some /\ r.filesToDelete.val # <<>>
    THEN [r EXCEPT !.pc = "delete", !.i = 1]
    ELSE [r EXCEPT !.pc = "refetch"]

AfterMkdir(r) ==
    IF r.filesToDownload.some /\ r.filesToDownload.val # <<>>
    THEN [r EXCEPT !.pc = "download", !.i = 1]
    ELSE AfterDownload(r)

AfterUpload(r) ==
    IF r.dirs # <<>> THEN [r EXCEPT !.pc = "mkdir", !.i = 1] ELSE AfterMkdir(r)

\* filesToUpload, filesToDownload, filesToDelete
Plan ==
    /\ run.pc = "plan"
    /\ LET checked == getFilesToUpload(run.localChanges.val, run.projectInfoRemote)
           bound == [run EXCEPT
                       !.filesToDownload =
                           IF run.remoteChanges.some
                           THEN Some(getFilesToDownload(run.projectInfoRemote,
                                                        run.remoteChanges.val))
                           ELSE None,
                       !.filesToDelete =
                           IF run.remoteChanges.some
                           THEN Some(getFilesToDelete(run.remoteChanges.val))
                           ELSE None,
                       !.dirs = sortByDepth(getDirToUpdate(run.projectInfoRemote), 1),
                       !.i = 1]
       IN  IF run.localChanges.some
           THEN /\ log' = Append(log, Logged("getFilesToUpload", Root, ""))
                /\ run' = IF checked.ok
                          THEN [bound EXCEPT !.pc = "upload", !.filesToUpload = Some(checked.val)]
                          ELSE Fail(checked.err)
           ELSE /\ log' = log
                /\ run' = AfterUpload([bound EXCEPT !.filesToUpload = None])
    /\ UNCHANGED <<store, remote, localFiles, calc>>

\* the server applies an upload: archived files get the uploaded content and a
\* new version, removed files disappear, new files and their directory appear
serverApply(server, uploadFiles, removeFiles, files) ==
    LET kept == SelectSeq(server, LAMBDA e : e.path \notin Range(removeFiles))
        bumped == [i \in 1..Len(kept) |->
                     IF kept[i].path \in Range(uploadFiles)
                     THEN [kept[i] EXCEPT !.version = @ + 1, !.content = files[kept[i].path]]
                     ELSE kept[i]]
        fresh == SelectSeq(uploadFiles, LAMBDA p : p \notin Paths(server))
        freshDirs == SelectSeq(<<<<"d">>>>,
                               LAMBDA d : d \notin Paths(server)
                                          /\ \E i \in 1..Len(fresh) : d \in ProperAncestors(fresh[i]))
    IN  bumped
        \o [i \in 1..Len(freshDirs) |->
              [path |-> freshDirs[i], type |-> "dir", version |-> 1,
               permissions |-> "rw", content |-> ""]]
        \o [i \in 1..Len(fresh) |->
              [path |-> fresh[i], type |-> "file", version |-> 1,
               permissions |-> "rw", content |-> files[fresh[i]]]]

\* the paths of every change, whatever its kind
removeFiles_all(changes) == MapSeq(changes, LAMBDA c : c.path)

\* uploadFiles: the paths of the added and updated changes
uploadFiles(changes) ==
    MapSeq(FilterSeq(changes, LAMBDA c : c.change.tag \in {"added", "updated"}),
           LAMBDA c : c.path)

\* removeFiles: the paths of the removed changes
removeFiles(changes) ==
    MapSeq(FilterSeq(changes, LAMBDA c : c.change.tag = "removed"), LAMBDA c : c.path)

\* the request of apiPostSigned: the archive built from uploadFiles, the body
\* read from it (empty when nothing is archived) and the payload that is signed
postFiles(changes) ==
    [archive |-> uploadFiles(changes),
     removeFiles |-> removeFiles(changes),
     body |-> IF uploadFiles(changes) = <<>> THEN "empty" ELSE "archive",
     jwtPayload |-> IF uploadFiles(changes) = <<>>
                    THEN {"removeFiles"}
                    ELSE {"tarHash", "removeFiles"}]

\* uploadChangedFiles
Upload ==
    /\ run.pc = "upload"
    /\ LET changes == run.filesToUpload.val
           request == postFiles(changes)
           tempDir == Append(log, Logged("tempDir", Root, ""))
           built == Append(tempDir, Logged("buildTar", Root, request.archive))
           read == IF request.archive = <<>> THEN built
                   ELSE Append(built, Logged("readBinaryFile", Root, ""))
           posted == Append(read, Logged("POST files", Root, request))
           applied == serverApply(remote, request.archive, request.removeFiles, localFiles)
       IN  \/ /\ Faults
              /\ log' = tempDir
              /\ run' = Throw("tempDir")
              /\ remote' = remote
           \/ /\ Faults
              /\ request.archive # <<>>
              /\ log' = read
              /\ run' = Throw("readBinaryFile")
              /\ remote' = remote
           \/ /\ Faults
              /\ log' = posted
              /\ run' = Fail(networkError("Could not connect to server"))
              /\ remote' \in {remote, applied}
           \/ /\ log' = posted
              /\ run' = AfterUpload(run)
              /\ remote' = applied
    /\ UNCHANGED <<store, localFiles, calc>>

\* updateDir, for the next directory of the inventory, shallow first
Mkdir ==
    /\ run.pc = "mkdir"
    /\ LET dir == run.dirs[run.i]
       IN  /\ log' = Append(log, Logged("createProjectDir", dir.path, dir.permissions = "r"))
           /\ \/ Faults /\ run' = Fail(fileSystemCorrupted(run.projectDirRelative, "createProjectDir"))
              \/ run' = IF run.i < Len(run.dirs)
                        THEN [run EXCEPT !.i = @ + 1]
                        ELSE AfterMkdir(run)
    /\ UNCHANGED <<store, remote, localFiles, calc>>

\* writeSingeFile, for the next file to download
Download ==
    /\ run.pc = "download"
    /\ LET file == run.filesToDownload.val[run.i]
           served == Lookup(remote, file.path)
           mkPath == Append(log, Logged("createProjectPath", Root, ""))
           got == Append(mkPath, Logged("GET file", file.path, ""))
           written == Append(got, Logged("writeProjectFile", file.path, file.permissions = "r"))
           hashed == Append(written, Logged("getFileHash", file.path, ""))
           stored == [localFiles EXCEPT ![file.path] = served.val.content]
       IN  \/ /\ Faults
              /\ log' = mkPath
              /\ run' = Fail(fileSystemCorrupted(run.projectDirRelative, "createProjectPath"))
              /\ localFiles' = localFiles
           \/ /\ Faults \/ ~served.some
              /\ log' = got
              /\ run' = Fail(networkError("Could not connect to server"))
              /\ localFiles' = localFiles
           \/ /\ Faults
              /\ served.some
              /\ log' = written
              /\ run' = Fail(fileSystemCorrupted(run.projectDirRelative, "writeProjectFile"))
              /\ localFiles' = localFiles
           \/ /\ Faults
              /\ served.some
              /\ log' = hashed
              /\ run' = Fail(fileSystemCorrupted(run.projectDirRelative, "getFileHash"))
              /\ localFiles' = stored
           \/ /\ served.some
              /\ log' = hashed
              /\ run' = IF run.i < Len(run.filesToDownload.val)
                        THEN [run EXCEPT !.i = @ + 1]
                        ELSE AfterDownload(run)
              /\ localFiles' = stored
    /\ UNCHANGED <<store, remote, calc>>

\* Delete that fails the run when the file to remove does not exist
Delete_failsOnMissing ==
    /\ run.pc = "delete"
    /\ LET file == run.filesToDelete.val[run.i]
       IN  /\ log' = Append(log, Logged("removeFile", file.path, ""))
           /\ localFiles' = [localFiles EXCEPT ![file.path] = Absent]
           /\ run' = IF localFiles[file.path] = Absent
                     THEN Fail(fileSystemCorrupted(run.projectDirRelative, "removeFile"))
                     ELSE IF run.i < Len(run.filesToDelete.val)
                          THEN [run EXCEPT !.i = @ + 1]
                          ELSE [run EXCEPT !.pc = "refetch"]
    /\ UNCHANGED <<store, remote, calc>>

\* deleteSingeFile, for the next file removed remotely: the outcome of
\* removeFile is dropped, so a removal that failed leaves the file and the run
\* goes on
Delete ==
    /\ run.pc = "delete"
    /\ LET file == run.filesToDelete.val[run.i]
       IN  /\ log' = Append(log, Logged("removeFile", file.path, ""))
           /\ \/ localFiles' = [localFiles EXCEPT ![file.path] = Absent]
              \/ /\ Faults
                 /\ localFiles[file.path] # Absent
                 /\ localFiles' = localFiles
           /\ run' = IF run.i < Len(run.filesToDelete.val)
                     THEN [run EXCEPT !.i = @ + 1]
                     ELSE [run EXCEPT !.pc = "refetch"]
    /\ UNCHANGED <<store, remote, calc>>

\* projectRepository.upsertOne
upsertOne(projects, project) == [projects EXCEPT ![project.value.projectId] = project]

\* the syncState of the stored project
nextSyncState(project) ==
    IF project.tag = "remote" THEN syncedUnknown ELSE project.value.syncState

\* Refetch that stores the fetched inventory before its files are hashed
Refetch_storesFirst ==
    /\ run.pc = "refetch"
    /\ log' = Append(log, Logged("GET info", Root, ""))
    /\ \/ /\ Faults
          /\ run' = Fail(networkError("Could not connect to server"))
          /\ store' = store
       \/ /\ run' = [run EXCEPT !.pc = "hash", !.updatedProjectInfo = Inventory(remote)]
          /\ store' = upsertOne(store, localProject(run.project.value, run.projectDirRelative,
                                                    Inventory(remote), 1,
                                                    nextSyncState(run.project)))
    /\ UNCHANGED <<remote, localFiles, calc>>

\* updatedProjectInfo: the inventory is fetched again
Refetch ==
    /\ run.pc = "refetch"
    /\ log' = Append(log, Logged("GET info", Root, ""))
    /\ \/ Faults /\ run' = Fail(networkError("Could not connect to server"))
       \/ run' = [run EXCEPT !.pc = "hash", !.updatedProjectInfo = Inventory(remote)]
    /\ UNCHANGED <<store, remote, localFiles, calc>>

\* updatedProjectInfo: addHash for every file of the inventory; a failure is thrown
HashFiles ==
    /\ run.pc = "hash"
    /\ LET files == FilterSeq(run.updatedProjectInfo, isFile)
           hashed == [i \in 1..Len(files) |->
                        [path |-> files[i].path, type |-> files[i].type,
                         version |-> files[i].version,
                         permissions |-> files[i].permissions,
                         hash |-> Hash(localFiles[files[i].path])]]
       IN  /\ log' = Append(log, Logged("addHash", Root, ""))
           /\ \/ /\ files # <<>>
                 /\ Faults \/ \E i \in 1..Len(files) : localFiles[files[i].path] = Absent
                 /\ run' = Throw("getFileHash")
              \/ /\ \A i \in 1..Len(files) : localFiles[files[i].path] # Absent
                 /\ run' = [run EXCEPT !.pc = "upsert", !.updatedProjectInfo = hashed]
    /\ UNCHANGED <<store, remote, localFiles, calc>>

\* Upsert that stores the inventory fetched at the start of the run
Upsert_firstInventory ==
    /\ run.pc = "upsert"
    /\ log' = Append(log, Logged("upsertOne", Root, ""))
    /\ store' = upsertOne(store, localProject(run.project.value, run.projectDirRelative,
                                              [i \in 1..Len(Files(run.projectInfoRemote)) |->
                                                 [path |-> Files(run.projectInfoRemote)[i].path,
                                                  type |-> "file",
                                                  version |-> Files(run.projectInfoRemote)[i].version,
                                                  permissions |-> Files(run.projectInfoRemote)[i].permissions,
                                                  hash |-> Hash(localFiles[Files(run.projectInfoRemote)[i].path])]],
                                              1, nextSyncState(run.project)))
    /\ run' = [run EXCEPT !.pc = "done", !.result = Succeeded]
    /\ UNCHANGED <<remote, localFiles, calc>>

\* store new state
Upsert ==
    /\ run.pc = "upsert"
    /\ log' = Append(log, Logged("upsertOne", Root, ""))
    /\ store' = upsertOne(store, localProject(run.project.value, run.projectDirRelative,
                                              run.updatedProjectInfo, 1,
                                              nextSyncState(run.project)))
    /\ run' = [run EXCEPT !.pc = "done", !.result = Succeeded]
    /\ UNCHANGED <<remote, localFiles, calc>>

Next ==
    \/ Start
    \/ Retry
    \/ Setup
    \/ FetchRemote
    \/ ScanLocal
    \/ Diff
    \/ Plan
    \/ Upload
    \/ Mkdir
    \/ Download
    \/ Delete
    \/ Refetch
    \/ HashFiles
    \/ Upsert

Spec == Init /\ [][Next]_vars

(***************************************************************************)
(* Properties of a sync run, checked under Spec                            *)
(***************************************************************************)
Ops == {log[i].op : i \in 1..Len(log)}
DiffsBound == run.pc \notin {"idle", "setup", "fetchRemote", "scanLocal", "diff"}

\* the diffs of the run before force is applied to them
LocalDiff ==
    IF run.projectInfoLocal.some /\ run.projectInfoPrevious.some
    THEN getLocalChanges(run.projectInfoPrevious.val, run.projectInfoLocal.val)
    ELSE None
RemoteDiff ==
    getRemoteChanges(IF run.projectInfoPrevious.some THEN run.projectInfoPrevious.val ELSE <<>>,
                     run.projectInfoRemote)
DiffsOverlap ==
    /\ DiffsBound
    /\ LocalDiff.some /\ RemoteDiff.some
    /\ Paths(LocalDiff.val) \cap Paths(RemoteDiff.val) # {}

\* C1: a run that fails before the final upsert leaves the stored project as it
\* was when the run started.
BaselineAtomicity ==
    run.pc = "failed" => store[run.before.value.projectId] = run.before

BaselineAtomicityWitness ==
    /\ run.pc = "failed"
    /\ "POST files" \in Ops
    /\ "writeProjectFile" \in Ops
    /\ log[Len(log)].op = "addHash"

\* C2: without force, on a Local project whose local and remote diffs share a
\* path, the run fails with conflictingChanges and has uploaded, downloaded,
\* deleted and stored nothing.
ConflictGate ==
    (run.force = "none" /\ run.project.tag = "local" /\ DiffsOverlap) =>
        /\ run.pc = "failed"
        /\ run.result = Failed(conflictingChanges)
        /\ Ops \cap {"POST files", "GET file", "removeFile", "upsertOne"} = {}
        /\ store[run.before.value.projectId] = run.before

ConflictGateWitness ==
    /\ run.force = "none"
    /\ run.pc = "failed"
    /\ run.result = Failed(conflictingChanges)
    /\ Cardinality(Paths(LocalDiff.val)) > Cardinality(Paths(LocalDiff.val) \cap Paths(RemoteDiff.val))

\* C3: a run with force = 'push' issues no GET project/{id}/file and deletes no
\* local file.
ForcePushNoPull ==
    run.force = "push" => Ops \cap {"GET file", "writeProjectFile", "removeFile"} = {}

ForcePushNoPullWitness ==
    /\ run.force = "push"
    /\ run.pc = "done"
    /\ RemoteDiff.some
    /\ \E i \in 1..Len(RemoteDiff.val) : RemoteDiff.val[i].change.tag = "removed"
    /\ \E i \in 1..Len(RemoteDiff.val) : RemoteDiff.val[i].change.tag = "updated"

\* C4: a run with force = 'pull' runs no upload-eligibility check, builds no
\* archive and issues no POST project/{id}/files.
ForcePullNoPush ==
    run.force = "pull" =>
        Ops \cap {"getFilesToUpload", "tempDir", "buildTar", "readBinaryFile", "POST files"} = {}

ForcePullNoPushWitness ==
    /\ run.force = "pull"
    /\ run.pc = "done"
    /\ LocalDiff.some
    /\ "GET file" \in Ops

\* C5: a run with force set never fails with conflictingChanges.
ForceSkipsConflictGate ==
    run.force # "none" => run.result.err.tag # "conflictingChanges"

ForceSkipsConflictGateWitness ==
    /\ run.force # "none"
    /\ run.pc = "done"
    /\ DiffsOverlap

\* the local updates of the run, past the conflict gate, of files that the
\* fetched remote inventory holds read-only
ReadOnlyUpdates ==
    IF /\ run.pc \notin {"idle", "setup", "fetchRemote", "scanLocal", "diff", "plan"}
       /\ run.localChanges.some
       /\ ~(run.remoteChanges.some
             /\ Paths(run.localChanges.val) \cap Paths(run.remoteChanges.val) # {})
    THEN {i \in 1..Len(run.localChanges.val) :
            /\ run.localChanges.val[i].change.tag = "updated"
            /\ ReadOnlyInRemote(run.projectInfoRemote, run.localChanges.val[i].path)}
    ELSE {}

Stored == store[run.before.value.projectId]
RemoteFiles == Files(remote)
BaselinePaths == IF run.before.tag = "local" THEN Paths(run.before.value.files) ELSE {}

\* the baseline a commit is to store: the files of the remote inventory with the
\* hash of the local file
CommitOf(server, files) ==
    [i \in 1..Len(Files(server)) |->
        [path |-> Files(server)[i].path, type |-> "file",
         version |-> Files(server)[i].version,
         permissions |-> Files(server)[i].permissions,
         hash |-> Hash(files[Files(server)[i].path])]]

\* C14: after a successful run the store holds a Local record of the project
\* whose files are the 'file' entries of the remote inventory fetched at the
\* commit, with its versions and permissions and the hash of the local file.
CommitContent ==
    run.pc = "done" =>
        /\ Stored.tag = "local"
        /\ Stored.value.files = CommitOf(remote, localFiles)
        /\ \A i \in 1..Len(Stored.value.files) : Stored.value.files[i].type = "file"

CommitContentWitness ==
    /\ run.pc = "done"
    /\ "POST files" \in Ops
    /\ \E i \in 1..Len(Stored.value.files) :
          /\ Stored.value.files[i].version = 2
          /\ Stored.value.files[i].hash = Hash(Edited)
    /\ \E i \in 1..Len(remote) : remote[i].type = "dir"

\* C15: after a successful run the stored project's syncState is
\* synced(unknown), whatever the project and its previous syncState were.
SyncedAfterCommit ==
    run.pc = "done" => Stored.value.syncState = syncedUnknown

\* the same for the runs of a Remote project
SyncedAfterPromotion ==
    (run.pc = "done" /\ run.before.tag = "remote") => Stored.value.syncState = syncedUnknown

\* C16: a successful run of a Local project changes only files, syncedAt and
\* syncState of the stored record; the identity, the metadata and basePath are
\* as before.
LocalFrame ==
    (run.pc = "done" /\ run.before.tag = "local") =>
        /\ Stored.tag = "local"
        /\ DOMAIN Stored.value = DOMAIN run.before.value
        /\ \A k \in DOMAIN run.before.value \ {"files", "syncedAt", "syncState"} :
              Stored.value[k] = run.before.value[k]
        /\ store["p2"] = remoteProject(Metadata("p2"))

LocalFrameWitness ==
    /\ run.pc = "done" /\ run.before.tag = "local"
    /\ run.before.value.basePath = MovedDir
    /\ Stored.value.files # run.before.value.files
    /\ Stored.value.syncedAt # run.before.value.syncedAt

\* a successful run without force of a Local project without local changes
CleanPull ==
    /\ run.pc = "done" /\ run.force = "none" /\ run.before.tag = "local"
    /\ ~LocalDiff.some

\* C17: in a successful run without force of a Local project without local
\* changes, every file of the baseline that the remote inventory no longer lists
\* is removed from the project directory and has no entry in the committed
\* baseline, which keeps every file still listed remotely.
RemoteDeletion ==
    CleanPull =>
        /\ \A p \in BaselinePaths \ Paths(run.projectInfoRemote) :
              localFiles[p] = Absent /\ p \notin Paths(Stored.value.files)
        /\ Paths(Files(run.projectInfoRemote)) \subseteq Paths(Stored.value.files)

\* the part of it that is about the committed baseline
RemoteDeletionBaseline ==
    CleanPull =>
        /\ \A p \in BaselinePaths \ Paths(run.projectInfoRemote) :
              p \notin Paths(Stored.value.files)
        /\ Paths(Files(run.projectInfoRemote)) \subseteq Paths(Stored.value.files)

\* C18: after a successful run with force = 'pull', every file of the remote
\* inventory has the remote content locally and the hash of the remote content
\* in the committed baseline.
ForcePullDiscardsLocal ==
    (run.pc = "done" /\ run.force = "pull") =>
        \A i \in 1..Len(RemoteFiles) :
            /\ localFiles[RemoteFiles[i].path] = RemoteFiles[i].content
            /\ Lookup(Stored.value.files, RemoteFiles[i].path).some
            /\ Lookup(Stored.value.files, RemoteFiles[i].path).val.hash
                    = Hash(RemoteFiles[i].content)

\* C19: the run that retries, without force, faults or edits, a run that failed
\* after its upload succeeds and commits a baseline equal to the remote
\* inventory.
RetryConverges ==
    run.attempt = 2 =>
        /\ run.pc # "failed"
        /\ run.pc = "done" =>
              /\ Stored.value.files = CommitOf(remote, localFiles)
              /\ \A i \in 1..Len(RemoteFiles) :
                    localFiles[RemoteFiles[i].path] = RemoteFiles[i].content

\* the phase of the run the i-th logged effect belongs to: 1 upload, 2
\* directories, 3 downloads, 4 local deletions, 5 the re-fetch of the
\* inventory, 6 hashing, 7 the store upsert, 0 everything before the apply
PhaseOf(i) ==
    LET op == log[i].op
    IN  CASE op \in {"tempDir", "buildTar", "readBinaryFile", "POST files"} -> 1
          [] op = "createProjectDir" -> 2
          [] op \in {"createProjectPath", "GET file", "writeProjectFile", "getFileHash"} -> 3
          [] op = "removeFile" -> 4
          [] op = "GET info" /\ \E j \in 1..(i - 1) : log[j].op = "GET info" -> 5
          [] op = "addHash" -> 6
          [] op = "upsertOne" -> 7
          [] OTHER -> 0

\* C24: the effects of one run are ordered: upload, then every directory, then
\* the downloads one at a time (each fetched file is written before the next is
\* fetched), then the local deletions, then the re-fetch of the inventory, and
\* the store upsert after all of them.
EffectOrder ==
    /\ \A i, j \in 1..Len(log) : i < j => PhaseOf(i) <= PhaseOf(j)
    /\ \A i \in 1..(Len(log) - 1) :
          log[i].op = "GET file" =>
              log[i + 1].op = "writeProjectFile" /\ log[i + 1].path = log[i].path
    /\ \A i \in 1..Len(log) :
          log[i].op = "upsertOne" =>
              /\ i = Len(log)
              /\ \E j \in 1..(i - 1) : PhaseOf(j) = 5

EffectOrderWitness ==
    /\ run.pc = "done"
    /\ {"POST files", "createProjectDir", "GET file", "upsertOne"} \subseteq Ops

\* C26: the upload request archives exactly the added and updated paths of the
\* local diff and lists exactly its removed paths in removeFiles; the payload is
\* { tarHash, removeFiles } when a path is archived and { removeFiles } with an
\* empty body otherwise; and the request is issued only for a non-empty local
\* diff, not under force = 'pull', that the upload gate accepts.
UploadRequest ==
    \A i \in 1..Len(log) :
        log[i].op = "POST files" =>
            LET request == log[i].info
            IN  /\ LocalDiff.some
                /\ run.force # "pull"
                /\ getFilesToUpload(LocalDiff.val, run.projectInfoRemote).ok
                /\ Range(request.archive) = PathsWith(LocalDiff, {"added", "updated"})
                /\ Range(request.removeFiles) = PathsWith(LocalDiff, {"removed"})
                /\ Len(request.archive) = Cardinality(Range(request.archive))
                /\ Len(request.removeFiles) = Cardinality(Range(request.removeFiles))
                /\ request.archive # <<>> =>
                      request.jwtPayload = {"tarHash", "removeFiles"} /\ request.body = "archive"
                /\ request.archive = <<>> =>
                      request.jwtPayload = {"removeFiles"} /\ request.body = "empty"

UploadRequestWitness ==
    \E i \in 1..Len(log) :
        /\ log[i].op = "POST files"
        /\ log[i].info.archive # <<>>
        /\ log[i].info.removeFiles # <<>>

\* the paths the run fetched from the server
Fetched == {log[i].path : i \in {j \in 1..Len(log) : log[j].op = "GET file"}}
\* the download phase of the run is over
DownloadsDone == run.pc \in {"delete", "refetch", "hash", "upsert", "done"}
\* the file entries of the first-fetched inventory that the baseline does not
\* have, or has at another version
ChangedRemotely ==
    LET baseline == IF run.projectInfoPrevious.some
                    THEN Files(run.projectInfoPrevious.val) ELSE <<>>
    IN  {e \in Range(run.projectInfoRemote) :
            /\ isFile(e)
            /\ LET b == Lookup(baseline, e.path)
               IN  ~b.some \/ b.val.version # e.version}

\* the run downloads the entries of expected and nothing else, each once, and
\* writes each with the read-only flag of its remote permissions
DownloadPlanOver(expected) ==
    /\ Fetched \subseteq {e.path : e \in expected}
    /\ DownloadsDone => Fetched = {e.path : e \in expected}
    /\ Cardinality({i \in 1..Len(log) : log[i].op = "GET file"}) = Cardinality(Fetched)
    /\ \A i \in 1..Len(log) :
          log[i].op = "writeProjectFile" =>
              \E e \in expected : e.path = log[i].path /\ log[i].info = (e.permissions = "r")

\* C27: a run that is not a force push downloads exactly the file entries of
\* the first-fetched inventory that are added or updated with respect to the
\* baseline, so the first sync of a Remote project downloads every remote file;
\* a force push downloads nothing; each file is written read-only iff its
\* remote permissions are 'r'.
DownloadPlan == DownloadPlanOver(IF run.force = "push" THEN {} ELSE ChangedRemotely)

DownloadPlanWitness ==
    /\ run.pc = "done"
    /\ run.project.tag = "remote"
    /\ Cardinality(Fetched) = 2
    /\ \E i \in 1..Len(log) : log[i].op = "writeProjectFile" /\ log[i].info = TRUE
    /\ \E i \in 1..Len(log) : log[i].op = "writeProjectFile" /\ log[i].info = FALSE

\* C27 as stated: every run downloads exactly the added and updated file
\* entries of the first-fetched inventory, whatever its force.
DownloadPlanAnyForce == DownloadPlanOver(ChangedRemotely)

\* the paths the run asked the filesystem to remove, in order
RemovalsLogged ==
    MapSeq(FilterSeq(log, LAMBDA l : l.op = "removeFile"), LAMBDA l : l.path)
\* the files the run asked to remove although the scan had not found them
MissingRemovals ==
    {i \in 1..Len(log) :
        /\ log[i].op = "removeFile"
        /\ run.projectInfoLocal.some
        /\ log[i].path \notin Paths(run.projectInfoLocal.val)}

\* C28: no run fails at a local deletion, in particular not at the deletion of
\* a file that no longer exists: once the run has left the delete phase every
\* scheduled deletion was attempted, and a run that failed failed at a later
\* effect.
DeleteTolerant ==
    /\ run.pc = "failed" /\ log # <<>> => log[Len(log)].op # "removeFile"
    /\ "removeFile" \in Ops /\ run.pc # "delete" =>
          RemovalsLogged = MapSeq(run.filesToDelete.val, LAMBDA c : c.path)
    /\ MissingRemovals # {} /\ run.pc = "failed" =>
          \E i \in 1..Len(log) : log[i].op = "GET info" /\ \A j \in MissingRemovals : j < i

DeleteTolerantWitness ==
    /\ run.pc = "done"
    /\ MissingRemovals # {}
    /\ Len(RemovalsLogged) = 2

\* the effect at which the run failed
LastOp == IF log = <<>> THEN "none" ELSE log[Len(log)].op

\* the failures the run maps: a failed readDirTree is fileSystemCorrupted and a
\* failed request is networkError
MappedFailures ==
    run.pc = "failed" /\ run.result.state = "left" =>
        /\ LastOp = "readDirTree" /\ ~run.projectInfoLocal.some =>
              run.result.err.tag = "fileSystemCorrupted"
        /\ LastOp \in {"GET info", "GET file", "POST files"} =>
              run.result.err.tag = "networkError"

\* C29: every failure inside a run is returned as a SyncException value (Left),
\* never thrown: a failed scan or hash is fileSystemCorrupted, a failed temp-dir
\* lookup or archive read is a SyncException, a failed request is networkError.
FailuresAreValues ==
    run.pc = "failed" =>
        /\ run.result.state = "left"
        /\ LastOp = "readDirTree" /\ ~run.projectInfoLocal.some =>
              run.result.err.tag = "fileSystemCorrupted"
        /\ LastOp = "addHash" => run.result.err.tag = "fileSystemCorrupted"
        /\ LastOp \in {"GET info", "GET file", "POST files"} =>
              run.result.err.tag = "networkError"

\* C30: when the 'projectDir' setting is absent or not a string the run fails
\* with projectDirMissing and its only effect is the read of the setting: no
\* request, no filesystem access, no store write; a run that read a string
\* never fails with projectDirMissing.
RootDirRequired ==
    log # <<>> =>
        /\ log[1].op = "settingRead"
        /\ IF log[1].info = "string"
           THEN run.result.err.tag # "projectDirMissing"
           ELSE /\ run.pc = "failed"
                /\ run.result = Failed(projectDirMissing)
                /\ Len(log) = 1
                /\ store[run.before.value.projectId] = run.before

RootDirRequiredWitness ==
    /\ run.pc = "failed"
    /\ run.project.tag = "local"
    /\ log # <<>> /\ log[1].info = "notString"

(***************************************************************************)
(* SpecUI: the list item of a project (ListItem.tsx) with its three         *)
(* remote-data states and the tasks its buttons and menu entries start.     *)
(***************************************************************************)
\* tasks of one kind that may be in flight at once
MaxInFlight == 2

\* useRemoteDataEither: the returned function starts the task and sets the state
\* to pending; the task's outcome becomes the state when it settles
refresh(rd) == [state |-> "pending", inFlight |-> rd.inFlight + 1]
settle(rd, outcome) == [state |-> outcome, inFlight |-> rd.inFlight - 1]
isPending(rd) == rd.state = "pending"
initial == [state |-> "initial", inFlight |-> 0]

UIInit ==
    /\ Quiescent
    /\ \E tag \in {"remote", "local"} :
          calc = [fn |-> "ui", project |-> tag, openStateRD |-> initial,
                  syncStateRD |-> initial, removalStateRD |-> initial]

UI == calc.fn = "ui"
UIFrame == UNCHANGED <<store, remote, localFiles, run, log>>

\* the project's name, a button that is disabled while an open is pending
OpenButton ==
    /\ UI /\ ~isPending(calc.openStateRD)
    /\ calc' = [calc EXCEPT !.openStateRD = refresh(@)]
    /\ UIFrame

\* the menu entry 'Open directory', disabled for a Remote project
OpenMenu ==
    /\ UI /\ calc.project # "remote"
    /\ calc.openStateRD.inFlight < MaxInFlight
    /\ calc' = [calc EXCEPT !.openStateRD = refresh(@)]
    /\ UIFrame

\* the sync button, which shows the pending sync and takes no click meanwhile
SyncButton ==
    /\ UI /\ ~isPending(calc.syncStateRD)
    /\ calc.syncStateRD.inFlight < MaxInFlight
    /\ calc' = [calc EXCEPT !.syncStateRD = refresh(@)]
    /\ UIFrame

\* the menu entry 'Sync to local computer', which is never disabled
SyncMenu ==
    /\ UI
    /\ calc.syncStateRD.inFlight < MaxInFlight
    /\ calc' = [calc EXCEPT !.syncStateRD = refresh(@)]
    /\ UIFrame

\* the menu entry 'Remove', disabled while a removal is pending
RemoveMenu ==
    /\ UI /\ ~isPending(calc.removalStateRD)
    /\ calc' = [calc EXCEPT !.removalStateRD = refresh(@)]
    /\ UIFrame

OpenSettles ==
    /\ UI /\ calc.openStateRD.inFlight > 0
    /\ \E outcome \in {"success", "failure"} :
          calc' = [calc EXCEPT !.openStateRD = settle(@, outcome)]
    /\ UIFrame

\* a sync that succeeds leaves a Local project
SyncSettles ==
    /\ UI /\ calc.syncStateRD.inFlight > 0
    /\ \/ calc' = [calc EXCEPT !.syncStateRD = settle(@, "success"), !.project = "local"]
       \/ calc' = [calc EXCEPT !.syncStateRD = settle(@, "failure")]
    /\ UIFrame

RemoveSettles ==
    /\ UI /\ calc.removalStateRD.inFlight > 0
    /\ calc' = [calc EXCEPT !.removalStateRD = settle(@, "success")]
    /\ UIFrame

UINext ==
    \/ OpenButton
    \/ OpenMenu
    \/ SyncButton
    \/ SyncMenu
    \/ RemoveMenu
    \/ OpenSettles
    \/ SyncSettles
    \/ RemoveSettles

SpecUI == UIInit /\ [][UINext]_vars

\* C20: at most one sync run of the project is in flight: while a run started
\* from the list item is pending, neither the sync button nor the menu entry
\* starts a second one.
OneSyncInFlight == UI => calc.syncStateRD.inFlight <= 1

(***************************************************************************)
(* SpecDirs: the first sync of a project whose remote inventory lists       *)
(* directories only, in every order the server may return them and with    *)
(* every path the codec RemoteFileInfoC (path: iots.string) accepts.       *)
(***************************************************************************)
\* '.', 'd', 'd/e' and '../x'
DirPaths == {Root, <<"d">>, <<"d", "e">>, <<"..", "x">>}

DirsInit ==
    /\ calc = NoCalc
    /\ run = IdleRun
    /\ log = <<>>
    /\ localFiles = [p \in FilePaths |-> Absent]
    /\ store = [id \in ProjectIds |-> remoteProject(Metadata(id))]
    /\ \E S \in SUBSET DirPaths, perm \in [DirPaths -> {"r", "rw"}] :
          remote \in Orderings({ServerEntry(p, 1, perm[p]) : p \in S})

DirsNext ==
    \/ Start
    \/ Setup
    \/ FetchRemote
    \/ ScanLocal
    \/ Diff
    \/ Plan
    \/ Mkdir
    \/ Refetch
    \/ HashFiles
    \/ Upsert

SpecDirs == DirsInit /\ [][DirsNext]_vars

\* the directories the run created, in order
DirsMade == FilterSeq(log, LAMBDA l : l.op = "createProjectDir")
\* the directory phase of the run is over
DirsDone == run.pc \in {"download", "delete", "refetch", "hash", "upsert", "done"}

\* every directory entry of the inventory is created once, read-only iff its
\* remote permissions are 'r'
DirsCreated ==
    /\ \A i \in 1..Len(DirsMade) :
          \E e \in Range(getDirToUpdate(run.projectInfoRemote)) :
              e.path = DirsMade[i].path /\ DirsMade[i].info = (e.permissions = "r")
    /\ \A i, j \in 1..Len(DirsMade) : DirsMade[i].path = DirsMade[j].path => i = j
    /\ DirsDone => Paths(DirsMade) = Paths(getDirToUpdate(run.projectInfoRemote))

\* C25: directories are ensured shallow first: a directory entry that is a
\* proper ancestor of another is created before it, whatever the order of the
\* entries in the inventory, and each is created read-only iff its remote
\* permissions are 'r'.
DirsShallowFirst ==
    /\ DirsCreated
    /\ \A i, j \in 1..Len(DirsMade) :
          DirsMade[i].path \in ProperAncestors(DirsMade[j].path) => i < j

\* the same for the ancestors below the project root
DirsShallowFirstBelowRoot ==
    /\ DirsCreated
    /\ \A i, j \in 1..Len(DirsMade) :
          /\ DirsMade[i].path \in ProperAncestors(DirsMade[j].path)
          /\ DirsMade[i].path # Root
          => i < j

\* a relative path without a '..' segment ('/x' splits into '' and 'x')
SafePath(p) == ".." \notin Range(p) /\ (p = Root \/ p[1] # "")

\* C21: every path a run uses to create a directory, write a file or delete a
\* file, and every path of a committed baseline, is relative and has no '..'
\* segment, for every inventory the server may return.
PathSafety ==
    /\ \A i \in 1..Len(log) :
          log[i].op \in {"createProjectDir", "writeProjectFile", "removeFile"} =>
              SafePath(log[i].path)
    /\ store["p1"].tag = "local" =>
          \A i \in 1..Len(store["p1"].value.files) : SafePath(store["p1"].value.files[i].path)

(***************************************************************************)
(* SpecRemoval: the first sync of a project and the removal of the same    *)
(* project from its list item, in every interleaving.                      *)
(***************************************************************************)
RemovalInit ==
    /\ calc = [fn |-> "removal", stage |-> "idle"]
    /\ run = IdleRun
    /\ log = <<>>
    /\ localFiles \in [FilePaths -> {Absent, Edited}]
    /\ store = [id \in ProjectIds |-> remoteProject(Metadata(id))]
    /\ \E st \in [Range(InventoryPaths) -> ServerStates] :
          /\ st[Root] \in {<<0, Absent>>, <<1, "rw">>}
          /\ st[<<"d">>][1] <= 1
          /\ st[<<"d", "f">>][2] # Absent => st[<<"d">>][2] # Absent
          /\ remote = ServerInit(st)

\* the Remove entry of the menu is enabled unless a removal is pending
RemoveStart ==
    /\ calc.stage = "idle"
    /\ store["p1"] # NoProject
    /\ calc' = [calc EXCEPT !.stage = "removing"]
    /\ UNCHANGED <<store, remote, localFiles, run, log>>

\* the removal deletes the project directory tree
RemoveDir ==
    /\ calc.stage = "removing"
    /\ localFiles' = [p \in FilePaths |-> Absent]
    /\ calc' = [calc EXCEPT !.stage = "dirRemoved"]
    /\ UNCHANGED <<store, remote, run, log>>

\* the removal deletes the store entry and completes
RemoveEntry ==
    /\ calc.stage = "dirRemoved"
    /\ store' = [store EXCEPT !["p1"] = NoProject]
    /\ calc' = [calc EXCEPT !.stage = "done"]
    /\ UNCHANGED <<remote, localFiles, run, log>>

RemovalNext ==
    \/ Start
    \/ Setup
    \/ FetchRemote
    \/ ScanLocal
    \/ Diff
    \/ Plan
    \/ Mkdir
    \/ Download
    \/ Refetch
    \/ HashFiles
    \/ Upsert
    \/ RemoveStart
    \/ RemoveDir
    \/ RemoveEntry

SpecRemoval == RemovalInit /\ [][RemovalNext]_vars

\* C22: once the removal of a project has completed the store has no entry for
\* the project, also when a sync run of the project was in flight when the
\* removal started and finishes afterwards.
RemovalIsFinal == calc.stage = "done" => store["p1"] = NoProject

(***************************************************************************)
(* SpecRemoteData: remoteData.filterOrElse applied to every remote-data    *)
(* value, predicate and onFalse within the bounds. A value carries the     *)
(* identity of its object (ref), so that returning the argument itself and *)
(* returning a copy of it differ.                                          *)
(***************************************************************************)
\* the largest value a success holds
MaxValue == 2

Values == 1..MaxValue
Errors == {"initial", "alt"}

\* the object of the argument, and the object a call constructs
ArgRef == "argument"
NewRef == "constructed"

rdInitial == [ref |-> "initial", tag |-> "initial", error |-> "", value |-> 0]
rdPending == [ref |-> "pending", tag |-> "pending", error |-> "", value |-> 0]
rdFailure(ref, e) == [ref |-> ref, tag |-> "failure", error |-> e, value |-> 0]
rdSuccess(ref, a) == [ref |-> ref, tag |-> "success", error |-> "", value |-> a]

RemoteDatas ==
    {rdInitial, rdPending}
    \cup {rdFailure(ArgRef, e) : e \in Errors}
    \cup {rdSuccess(ArgRef, a) : a \in Values}

\* filterOrElse that turns every success into a failure
filterOrElse_rejectsAll(predicate, onFalse, rd) ==
    IF rd.tag = "success" THEN rdFailure(NewRef, onFalse[rd.value]) ELSE rd

\* remoteData.filterOrElse(predicate, onFalse)(rd): the predicate is the set of
\* the values it accepts
filterOrElse(predicate, onFalse, rd) ==
    IF rd.tag = "success" /\ rd.value \notin predicate
    THEN rdFailure(NewRef, onFalse[rd.value])
    ELSE rd

RemoteDataInit ==
    /\ Quiescent
    /\ \E rd \in RemoteDatas, predicate \in SUBSET Values, onFalse \in [Values -> Errors] :
          calc = [fn |-> "remoteData", stage |-> "input", rd |-> rd,
                  predicate |-> predicate, onFalse |-> onFalse, out |-> rd]

CalcFilterOrElse ==
    /\ calc.fn = "remoteData" /\ calc.stage = "input"
    /\ calc' = [calc EXCEPT !.stage = "output",
                            !.out = filterOrElse(calc.predicate, calc.onFalse, calc.rd)]
    /\ UNCHANGED <<store, remote, localFiles, run, log>>

RemoteDataNext ==
    \/ CalcFilterOrElse

SpecRemoteData == RemoteDataInit /\ [][RemoteDataNext]_vars

Filtered == calc.fn = "remoteData" /\ calc.stage = "output"

Records(changes) == IF changes.some THEN changes.val ELSE <<>>

\* the version of the added records is the version of the latest inventory
AddedVersion ==
    Diffed =>
        \A i \in 1..Len(Records(calc.remoteChanges)) :
            LET c == Records(calc.remoteChanges)[i]
            IN  c.change.tag = "added" =>
                    c.change.version = Lookup(Files(calc.latest), c.path).val.version

\* C39: every 'added' and every 'updated' record of getRemoteChanges(previous,
\* latest) carries the version the path has in latest.
RemoteChangeVersion ==
    Diffed =>
        \A i \in 1..Len(Records(calc.remoteChanges)) :
            LET c == Records(calc.remoteChanges)[i]
            IN  c.change.tag \in {"added", "updated"} =>
                    c.change.version = Lookup(Files(calc.latest), c.path).val.version

\* the place of a change kind in the order removed, added, updated
KindRank(tag) == CASE tag = "removed" -> 1 [] tag = "added" -> 2 [] OTHER -> 3

\* the place of a path in the alphabetical order of the paths: 'a' < 'd/f'
AlphaRank(path) == CHOOSE i \in 1..Len(FilePathSeq) : FilePathSeq[i] = path

\* the records are grouped: removed, then added, then updated
GroupedByKind(changes) ==
    \A i, j \in 1..Len(changes) :
        i < j => KindRank(changes[i].change.tag) <= KindRank(changes[j].change.tag)

\* within each kind the records are sorted alphabetically by path
SortedWithinKind(changes) ==
    \A i, j \in 1..Len(changes) :
        i < j /\ changes[i].change.tag = changes[j].change.tag =>
            AlphaRank(changes[i].path) < AlphaRank(changes[j].path)

\* the groups of both diffs are in the order removed, added, updated
ChangeGroups ==
    Diffed =>
        /\ GroupedByKind(Records(calc.localChanges))
        /\ GroupedByKind(Records(calc.remoteChanges))

\* C31: the lists of getLocalChanges and getRemoteChanges have the removed
\* records first, then the added, then the updated, each group sorted
\* alphabetically by path, whatever the order of the input lists.
ChangeOrder ==
    Diffed =>
        /\ GroupedByKind(Records(calc.localChanges))
        /\ GroupedByKind(Records(calc.remoteChanges))
        /\ SortedWithinKind(Records(calc.localChanges))
        /\ SortedWithinKind(Records(calc.remoteChanges))

(***************************************************************************)
(* SpecClosest: the walk of findClosest, one call per step, from every     *)
(* relative path within the bounds through every remote inventory.         *)
(***************************************************************************)
\* the longest path the walk starts from, in segments
MaxDepth == 3

Segments == {"d", "f", ".."}

RECURSIVE PathsOfDepth(_)
PathsOfDepth(n) ==
    IF n = 0 THEN {Root}
    ELSE {Append(p, seg) : p \in PathsOfDepth(n - 1), seg \in Segments}

WalkPaths == UNION {PathsOfDepth(n) : n \in 0..MaxDepth}

ClosestInit ==
    /\ Quiescent
    /\ \E rem \in Inventories, p \in WalkPaths :
          calc = [fn |-> "closest", remote |-> rem, path |-> p, at |-> p, calls |-> 0,
                  done |-> FALSE, result |-> Right(FALSE)]

\* one call of findClosest(map)(relPath)
WalkStep ==
    /\ calc.fn = "closest" /\ ~calc.done
    /\ calc.calls <= MaxDepth + 1
    /\ LET step == findClosestStep(calc.remote, calc.at)
       IN  calc' = [calc EXCEPT !.at = step.next, !.calls = @ + 1,
                                !.done = step.done, !.result = step.result]
    /\ UNCHANGED <<store, remote, localFiles, run, log>>

ClosestNext ==
    \/ WalkStep

SpecClosest == ClosestInit /\ [][ClosestNext]_vars /\ WF_vars(WalkStep)

\* the path itself and its ancestors up to '.'
Prefixes(p) == {SubSeq(p, 1, k) : k \in 0..Len(p)}

\* the walk visits the path and its ancestors only, one call for each, and its
\* outcome is the first of them present in the inventory, or fileSystemCorrupted
\* when none is
ClosestSafe ==
    calc.fn = "closest" =>
        /\ calc.at \in Prefixes(calc.path)
        /\ calc.calls <= Len(calc.path) + 1
        /\ \A q \in Prefixes(calc.path) :
              Len(q) > Len(calc.at) => q \notin Paths(calc.remote)
        /\ calc.done /\ calc.result.ok =>
              /\ calc.at \in Paths(calc.remote)
              /\ calc.result.val = (Lookup(calc.remote, calc.at).val.permissions = "rw")
        /\ calc.done /\ ~calc.result.ok =>
              /\ calc.result.err.tag = "fileSystemCorrupted"
              /\ Prefixes(calc.path) \cap Paths(calc.remote) = {}

\* C32: the walk of findClosest terminates for every relative path: it steps
\* from the path through its dirnames, returns the first one present in the
\* inventory or fails with fileSystemCorrupted, and returns nothing else.
ClosestWalkTerminates == []ClosestSafe /\ <>(calc.fn = "closest" /\ calc.done)

ClosestWalkTerminatesWitness ==
    /\ calc.fn = "closest" /\ calc.done
    /\ calc.calls = 3
    /\ calc.result.ok
    /\ calc.at # Root

(***************************************************************************)
(* SpecStore: projectMetadataStore over tauriStore('project_metadata.json') *)
(* with one operation per project in flight. mem is the content of the     *)
(* Store object, disk the file written by save.                            *)
(***************************************************************************)
\* no value under a key
Null == [projectId |-> "none", taskName |-> ""]

\* the metadata a write or the commit of a run may store for a project
StoredValues(id) == {[projectId |-> id, taskName |-> t] : t \in {"T1", "T2"}}

\* tauriStore.set that replaces the content of the store by the one entry
storeSet_replacesAll(mem, key, value) ==
    [k \in ProjectIds |-> IF k = key THEN value ELSE Null]

\* tauriStore.set, before save: store.set(key, value)
storeSet(mem, key, value) == [mem EXCEPT ![key] = value]

\* tauriStore.delete, before save: store.delete(key)
storeDelete(mem, key) == [mem EXCEPT ![key] = Null]

\* tauriStore.get and ProjectMetadata.decode: option.fromNullable, then decoded
find(mem, projectId) == IF mem[projectId] = Null THEN None ELSE Some(mem[projectId])

NoOp == [kind |-> "none", value |-> Null, pc |-> "idle"]

StoreInit ==
    /\ Quiescent
    /\ \E present \in SUBSET ProjectIds :
          LET content == [id \in ProjectIds |->
                             IF id \in present
                             THEN [projectId |-> id, taskName |-> "T1"] ELSE Null]
          IN  calc = [fn |-> "store", mem |-> content, disk |-> content,
                      op |-> [id \in ProjectIds |-> NoOp],
                      expected |-> [id \in ProjectIds |-> find(content, id)],
                      found |-> [id \in ProjectIds |-> [valid |-> FALSE, result |-> None]]]

StoreFrame == UNCHANGED <<store, remote, localFiles, run, log>>

\* projectMetadataStore.write(value), also the commit of a run of the project
WriteStart ==
    /\ calc.fn = "store"
    /\ \E id \in ProjectIds :
       \E value \in StoredValues(id) :
          /\ calc.op[id].pc = "idle"
          /\ calc' = [calc EXCEPT !.op[id] = [kind |-> "write", value |-> value, pc |-> "set"]]
    /\ StoreFrame

\* projectMetadataStore.remove(projectId)
RemoveStoreStart ==
    /\ calc.fn = "store"
    /\ \E id \in ProjectIds :
          /\ calc.op[id].pc = "idle"
          /\ calc' = [calc EXCEPT !.op[id] = [kind |-> "remove", value |-> Null, pc |-> "set"]]
    /\ StoreFrame

\* await store.set(key, value) / await store.delete(key)
StoreSet ==
    /\ calc.fn = "store"
    /\ \E id \in ProjectIds :
          /\ calc.op[id].pc = "set"
          /\ calc' = [calc EXCEPT
                        !.mem = IF calc.op[id].kind = "write"
                                THEN storeSet(calc.mem, calc.op[id].value.projectId,
                                              calc.op[id].value)
                                ELSE storeDelete(calc.mem, id),
                        !.found[id] = [valid |-> FALSE, result |-> None],
                        !.op[id].pc = "save"]
    /\ StoreFrame

\* await store.save(): the operation returns
StoreSave ==
    /\ calc.fn = "store"
    /\ \E id \in ProjectIds :
          /\ calc.op[id].pc = "save"
          /\ calc' = [calc EXCEPT
                        !.disk = calc.mem,
                        !.op[id] = NoOp,
                        !.expected[id] = IF calc.op[id].kind = "write"
                                         THEN Some(calc.op[id].value) ELSE None]
    /\ StoreFrame

\* projectMetadataStore.find(projectId), once the operation of the project returned
Find ==
    /\ calc.fn = "store"
    /\ \E id \in ProjectIds :
          /\ calc.op[id].pc = "idle"
          /\ calc' = [calc EXCEPT !.found[id] = [valid |-> TRUE, result |-> find(calc.mem, id)]]
    /\ StoreFrame

StoreNext ==
    \/ WriteStart
    \/ RemoveStoreStart
    \/ StoreSet
    \/ StoreSave
    \/ Find

SpecStore == StoreInit /\ [][StoreNext]_vars

wait == 100

MaxTime == 200
MaxCalls == 3
Gaps == {40, 100}
ErrorArgs == {"e1", "e2"}

\* the returned function that keeps the timer of the earlier call
debounced_keepsTimer(timers, timeout, now, args) ==
    LET handle == timeout + 1
    IN  [timers  |-> timers \cup {[handle |-> handle, due |-> now + wait, args |-> args]},
         timeout |-> handle]

\* the function returned by debounce: clearTimeout(timeout), then
\* timeout = setTimeout(next, wait); handles are given out in increasing order
debounced(timers, timeout, now, args) ==
    LET handle  == timeout + 1
        cleared == {tm \in timers : tm.handle # timeout}
    IN  [timers  |-> cleared \cup {[handle |-> handle, due |-> now + wait, args |-> args]},
         timeout |-> handle]

DebounceInit ==
    /\ Quiescent
    /\ calc = [fn |-> "debounce", now |-> 0, timers |-> {}, timeout |-> 0,
               calls |-> <<>>, ran |-> <<>>]

DebounceFrame == UNCHANGED <<store, remote, localFiles, run, log>>

\* an 'error' or 'unhandledrejection' event, or the catch of the render
Call ==
    /\ calc.fn = "debounce"
    /\ Len(calc.calls) < MaxCalls
    /\ calc.now <= MaxTime
    /\ \E args \in ErrorArgs :
          LET d == debounced(calc.timers, calc.timeout, calc.now, args)
          IN  calc' = [calc EXCEPT !.timers = d.timers, !.timeout = d.timeout,
                                   !.calls = Append(@, [at |-> calc.now, args |-> args])]
    /\ DebounceFrame

\* time passes
Tick ==
    /\ calc.fn = "debounce"
    /\ calc.now < MaxTime + wait
    /\ \E gap \in Gaps : calc' = [calc EXCEPT !.now = @ + gap]
    /\ DebounceFrame

\* a due timer runs next(), that is callback(...args) of the call that set it
Fire ==
    /\ calc.fn = "debounce"
    /\ \E tm \in calc.timers :
          /\ calc.now >= tm.due
          /\ calc' = [calc EXCEPT !.timers = @ \ {tm},
                                  !.ran = Append(@, [handle |-> tm.handle, at |-> calc.now,
                                                     args |-> tm.args])]
    /\ DebounceFrame

DebounceNext == Call \/ Tick \/ Fire

SpecDebounce ==
    DebounceInit /\ [][DebounceNext]_vars /\ WF_vars(Tick) /\ WF_vars(Fire)

\* every consecutive pair of calls is less than the wait time apart
OneBurst(calls) ==
    \A n \in 1..(Len(calls) - 1) : calls[n + 1].at - calls[n].at < wait

\* each run is the run of one call, with its arguments, no earlier than the
\* wait time after it, and never of a call that was followed within the wait time
RunsAreOfLastCalls ==
    calc.fn = "debounce" =>
        /\ \A m \in 1..Len(calc.ran) :
              LET ranCall == calc.ran[m]
              IN  /\ ranCall.handle \in 1..Len(calc.calls)
                  /\ ranCall.args = calc.calls[ranCall.handle].args
                  /\ ranCall.at >= calc.calls[ranCall.handle].at + wait
                  /\ ranCall.handle < Len(calc.calls) =>
                        calc.calls[ranCall.handle + 1].at - calc.calls[ranCall.handle].at >= wait
        /\ \A m, n \in 1..Len(calc.ran) :
              calc.ran[m].handle = calc.ran[n].handle => m = n

\* a burst has been handled: one run, of its last call
BurstHandled ==
    (calc.fn = "debounce" /\ calc.calls # <<>> /\ OneBurst(calc.calls)) =>
        /\ Len(calc.ran) = 1
        /\ calc.ran[1].handle = Len(calc.calls)
        /\ calc.ran[1].args = calc.calls[Len(calc.calls)].args
        /\ calc.ran[1].at >= calc.calls[Len(calc.calls)].at + wait

\* C34: calls of the debounced handler that are each less than the wait time
\* after the one before make the wrapped handler run exactly once, with the
\* arguments of the last call and no earlier than the wait time after it
DebounceRunsLast == []RunsAreOfLastCalls /\ <>[]BurstHandled

\* three calls 40 ms apart with different arguments, handled by one run
DebounceRunsLastWitness ==
    /\ calc.fn = "debounce"
    /\ Len(calc.calls) = 3
    /\ OneBurst(calc.calls)
    /\ calc.calls[1].at < calc.calls[2].at /\ calc.calls[2].at < calc.calls[3].at
    /\ calc.calls[2].args # calc.calls[3].args
    /\ Len(calc.ran) = 1
    /\ calc.ran[1].args = calc.calls[3].args

(***************************************************************************)
(* Properties of the committed baseline, checked under Spec.  Nothing but  *)
(* the upload of the run changes the remote inventory in Spec.             *)
(***************************************************************************)

\* every file of the committed baseline exists locally with the content the
\* server holds for the version of the baseline
BaselineIsRemoteContent ==
    \A i \in 1..Len(Stored.value.files) :
        LET entry == Stored.value.files[i]
            served == Lookup(RemoteFiles, entry.path)
        IN  /\ localFiles[entry.path] # Absent
            /\ served.some
            /\ served.val.version = entry.version
            /\ localFiles[entry.path] = served.val.content

\* the diffs the next run computes from the committed baseline
NextLocalDiff == getLocalChanges(Stored.value.files, scanLocal(localFiles))
NextRemoteDiff == getRemoteChanges(Stored.value.files, Inventory(remote))

\* C35: after a successful run without force every file of the committed
\* baseline exists locally with the remote content of the baseline's version,
\* and the run that follows without edits computes an empty local diff and an
\* empty remote diff.
SyncConverges ==
    (run.pc = "done" /\ run.force = "none") =>
        /\ BaselineIsRemoteContent
        /\ ~NextLocalDiff.some
        /\ ~NextRemoteDiff.some

\* the part of it that is about the files of the baseline
SyncConvergesOnBaseline ==
    (run.pc = "done" /\ run.force = "none") => BaselineIsRemoteContent

\* C36: after a successful run with force = 'push' the version of every file
\* of the committed baseline identifies remote content whose hash is the hash
\* recorded for the local file.
ForcePushBaseline ==
    (run.pc = "done" /\ run.force = "push") =>
        \A i \in 1..Len(Stored.value.files) :
            LET entry == Stored.value.files[i]
                served == Lookup(RemoteFiles, entry.path)
            IN  /\ served.some
                /\ served.val.version = entry.version
                /\ entry.hash = Hash(localFiles[entry.path])
                /\ entry.hash = Hash(served.val.content)

\* C37: when the files of the re-fetched inventory are to be hashed, every one
\* of them exists in the project directory.
CommitCanHash ==
    run.pc = "hash" =>
        \A i \in 1..Len(run.updatedProjectInfo) :
            isFile(run.updatedProjectInfo[i]) =>
                localFiles[run.updatedProjectInfo[i].path] # Absent

\* the same for the runs without force of a Local project
CommitCanHashNoForce ==
    (run.pc = "hash" /\ run.force = "none" /\ run.before.tag = "local") =>
        \A i \in 1..Len(run.updatedProjectInfo) :
            isFile(run.updatedProjectInfo[i]) =>
                localFiles[run.updatedProjectInfo[i].path] # Absent

(***************************************************************************)
(* A further property of getFilesToUpload, checked under SpecUpload        *)
(***************************************************************************)

\* the closest ancestor of p the inventory holds is read-only
NearestAncestorReadOnly(rem, p) ==
    /\ PresentAncestors(rem, p) # {}
    /\ Lookup(rem, NearestAncestor(rem, p)).val.permissions = "r"

\* C38: when getFilesToUpload rejects an 'updated' or 'removed' change with
\* readOnlyFilesChanged, the changed file is in the remote inventory with
\* permissions 'r' or its closest existing ancestor has permissions 'r'.
ReadOnlyOnlyIfReadOnly ==
    Uploaded =>
        \A i \in Decisive(calc.remote, calc.changes) :
            LET checked == checkChange(calc.remote, calc.changes[i])
            IN  (/\ calc.changes[i].change.tag \in {"updated", "removed"}
                 /\ ~checked.ok
                 /\ checked.err.tag = "readOnlyFilesChanged") =>
                    \/ ReadOnlyInRemote(calc.remote, calc.changes[i].path)
                    \/ NearestAncestorReadOnly(calc.remote, calc.changes[i].path)

\* the same for the changes of a path the remote inventory holds
ReadOnlyOnlyIfReadOnlyPresent ==
    Uploaded =>
        \A i \in Decisive(calc.remote, calc.changes) :
            LET checked == checkChange(calc.remote, calc.changes[i])
            IN  (/\ calc.changes[i].change.tag \in {"updated", "removed"}
                 /\ Lookup(calc.remote, calc.changes[i].path).some
                 /\ ~checked.ok
                 /\ checked.err.tag = "readOnlyFilesChanged") =>
                    \/ ReadOnlyInRemote(calc.remote, calc.changes[i].path)
                    \/ NearestAncestorReadOnly(calc.remote, calc.changes[i].path)

====
